---------------------------- MODULE Spec2Model ----------------------------
(***************************************************************************)
(* Model of the completion-polling helpers of the Lambda test harness:     *)
(*   LambdaTestHelper.waitForLambdaProcessing  (queue-drain poller)        *)
(*   CloudWatchLogsHelper.getLogEvents         (log-appearance poller)     *)
(*   LambdaTestHelper.purgeQueue / deleteS3Object (cleanup)                *)
(*   LambdaTestHelper.sendMessages             (sequential sends)          *)
(*   LambdaTestSuite.testSingleMessage, testBatchMessages,                 *)
(*     testErrorHandling, testLoadPerformance  (scenarios)                 *)
(*   waitForFile                               (file poller)               *)
(*   PostgresTestHelper.query, SqlServerTestHelper.query                   *)
(*   DynamoDBTestHelper.toDynamoFormat, putItem, getItem                   *)
(* Time is a millisecond clock `now` (Date.now()).  Code between two       *)
(* awaits takes no time; the clock advances only while every running call  *)
(* is suspended on a timer or on a remote call.                            *)
(***************************************************************************)
EXTENDS Integers, Sequences, FiniteSets, TLC

\* ------------------------------------------------------------- bounds --
\* Number of distinct messages that can be sent to the queue.
MaxMsgs == 2
\* Number of entries the log store can hold.
MaxLogEntries == 1
\* Largest latency of a log query, in clock steps.
MaxLatencyTicks == 1
\* Number of purgeQueue calls a test case makes in a row.
MaxPurgeCalls == 2
\* The counters of remote calls count up to this value and stay there.
MaxCounted == 3
\* Largest messageCount / messages.length of a batch or load scenario.
MaxLoadCount == 4
\* Largest concurrencyLevel of a load scenario.
MaxConcurrency == 3
\* The most messages a queue holds when a test waits for exactly that many.
MaxQueued == 11
\* The most times the file of a waitForFile call is created or removed.
MaxFileEvents == 2
\* The most query calls a database test makes.
MaxQueryCalls == 3
\* The most named parameters a query call passes.
MaxParams == 2
\* The longest list a record to encode holds.
MaxListLen == 2

\* -------------------------------------------------- program constants --
\* setTimeout(resolve, 10000) before the first queue read.
InitialDelayMs == 10000
\* ReceiveMessageCommand.WaitTimeSeconds: 1 (long poll of a receive).
WaitTimeMs == 1000
\* receiveMessages(queueUrl, maxMessages = 10).
DefaultMaxMessages == 10
\* getLogEvents: setTimeout(resolve, 1000) between two queries.
SleepMs == 1000
\* getLogEvents: const timeoutMs = 30 * 1000.
LogTimeoutMs == 30 * 1000
\* testSingleMessage: this.config.timeout || 30000.
SuiteDefaultTimeoutMs == 30000
\* testLoadPerformance: this.config.timeout || 60000.
LoadDefaultTimeoutMs == 60000
\* testErrorHandling: setTimeout(resolve, 5000) before the remaining-messages read.
ErrorSettleMs == 5000

\* The clock advances in steps of the shortest program delay.
TickMs == SleepMs

\* expectedMessageCount values the tests pass (default 0).
ExpectedChoices == {0, 1}
\* timeoutMs values: below the initial delay, just above it, above it, and
\* the default.
TimeoutChoices == {2000, 10500, 12000, 30000}
\* config.timeout values of the suite: unset (0, NaN) or set.
ConfigTimeoutChoices == {0, 2000, 10500}
\* config.timeout values of the batch and of the load scenario.
BatchTimeoutChoices == {2000, 10500}
LoadTimeoutChoices == {2000}
\* timeoutMs values of a wait for a given number of queued messages.
CountTimeoutChoices == {10500, 12000}

Min(a, b) == IF a < b THEN a ELSE b

VARIABLES
    now,        \* Date.now()
    test,       \* the entry point the test case exercises
    queue,      \* SQS: message id -> "unsent"|"visible"|"lambda"|"harness"|"processed"|"purged"
    wpc,        \* waitForLambdaProcessing: position of the call
    wStartTime, \* const startTime = Date.now()
    wExpected,  \* expectedMessageCount
    wTimeoutMs, \* timeoutMs
    wWake,      \* due time of the pending timer / long poll
    wLast,      \* settlement of the most recent receive: "none"|"ok"|"failed"
    wCount,     \* messages.length of the most recent receive
    wError,     \* the error the call rejected with
    wSeenN,     \* history: the queue held exactly n visible messages before the deadline
    wDrained,   \* history: the consumer had processed every sent message before the deadline
    wReadEnd,   \* history: Date.now() when the most recent receive settled
    logStore,   \* CloudWatch: the entries of the log group, in order of arrival
    lpc,        \* getLogEvents: position of the call
    lStartTime, \* const startTime = filter.startTime
    lCallTime,  \* history: Date.now() when getLogEvents was called
    lReadEnd,   \* history: Date.now() when the most recent query settled
    lEndTime,   \* const endTime = Date.now() of the pending query
    lWake,      \* due time of the pending query response / sleep
    lLast,      \* settlement of the most recent query: "none"|"ok"|"failed"
    lEvents,    \* response.events || [] of the most recent query
    lResult,    \* the value the call returned
    lError,     \* the error the call rejected with
    cfgTimeout, \* LambdaTestConfig.timeout of the suite
    spc,        \* testSingleMessage: position of the scenario
    sError,     \* the error the scenario rejected with
    sCount,     \* messages.length (testBatchMessages) / messageCount (testLoadPerformance)
    sConc,      \* concurrencyLevel
    sExpectDLQ, \* expectDLQ
    calls,      \* the sendMessages calls of the scenario, in order of creation
    lI,         \* testLoadPerformance: i of the batching loop
    lBatchSize, \* testLoadPerformance: batchSize
    sIssued,    \* history: sends the scenario has issued
    sSent,      \* history: sends of the scenario that resolved
    sWake,      \* testErrorHandling: due time of the pending timer / long poll
    sRemaining, \* testErrorHandling: remainingMessages.length
    ppc,        \* purgeQueue: position of the call
    pBatch,     \* purgeQueue: the received messages not yet deleted
    pWake,      \* purgeQueue: due time of the pending long poll
    pError,     \* the error purgeQueue rejected with
    pCalls,     \* history: number of purgeQueue calls started
    pReads,     \* history: receives settled in the current purgeQueue call
    pDeletes,   \* history: deletes settled in the current purgeQueue call
    pEntries,   \* history: messages returned by the receives of the current call
    pRead,      \* history: the messages of the most recent receive, as returned
    pDone,      \* history: the messages of that receive deleted so far, in order
    pQuiet,     \* history: no message was sent since the current call started
    pQueue0,    \* history: what the queue held when the current call started
    s3Objects,  \* S3: the keys in the bucket
    dpc,        \* deleteS3Object: position of the call
    dKey,       \* deleteS3Object: fileName
    dError,     \* the error deleteS3Object rejected with
    sLate,      \* history: sends that resolved after the scenario had failed
    fileExists, \* file system: the file at filePath exists
    fpc,        \* waitForFile: position of the call
    fI,         \* waitForFile: i of the loop
    fTimeoutMs, \* timeoutMs
    fStart,     \* history: Date.now() when waitForFile was called
    fWake,      \* due time of the pending timer
    fChecks,    \* history: existence checks the call has made
    fFound,     \* the value of the most recent existence check
    fExisted,   \* history: the file existed at some moment of [call, call + timeoutMs]
    fEvents,    \* history: how often the file was created or removed
    qHelper,    \* the helper under test: "postgres" | "sqlserver"
    qpc,        \* query: position of the call
    qParams,    \* query: number of entries of params
    qInputs,    \* query: request.input calls made (SqlServerTestHelper)
    qOpen,      \* the connections (pools) the helper opened and has not closed
    qCalls,     \* history: query calls started
    qFailed,    \* history: query calls that rejected
    qError,     \* the error the call rejected with
    dyRecord,   \* the record the test encodes
    dypc,       \* the DynamoDB test: position
    dyItem,     \* toDynamoFormat(record)
    dyKey,      \* the key passed to getItem
    dyTable,    \* DynamoDB: primary key -> stored item
    dyResult,   \* the response of getItem
    dyError,    \* the error putItem / getItem rejected with
    rMode,      \* how the runner schedules two runs: "serial" | "concurrent"
    rpc,        \* the second testSingleMessage run: position
    rBatch,     \* its purgeQueue: the received messages not yet deleted
    rWake,      \* due time of its pending timer / long poll
    rStart,     \* its waitForLambdaProcessing: startTime
    rMsg,       \* the message it sent (0: none yet)
    rError,     \* the error it rejected with
    rStolen,    \* history: messages of the first run its purge deleted before that run finished
    rConsumed   \* history: the messages the consumer has received

queueVars == <<queue>>
waitVars == <<wpc, wStartTime, wExpected, wTimeoutMs, wWake, wLast, wCount, wError>>
histVars == <<wSeenN, wDrained, wReadEnd>>
logVars == <<logStore, lpc, lStartTime, lCallTime, lReadEnd, lEndTime, lWake, lLast, lEvents,
            lResult, lError>>
suiteExt == <<sCount, sConc, sExpectDLQ, calls, lI, lBatchSize, sIssued, sSent, sWake,
              sRemaining>>
suiteVars == <<cfgTimeout, spc, sError, suiteExt>>
purgeHist == <<pCalls, pReads, pDeletes, pEntries, pRead, pDone, pQuiet, pQueue0>>
purgeVars == <<ppc, pBatch, pWake, pError, purgeHist>>
lateVars == <<sLate>>
fileVars == <<fileExists, fpc, fI, fTimeoutMs, fStart, fWake, fChecks, fFound, fExisted,
              fEvents>>
dbVars == <<qHelper, qpc, qParams, qInputs, qOpen, qCalls, qFailed, qError>>
dynVars == <<dyRecord, dypc, dyItem, dyKey, dyTable, dyResult, dyError>>
raceVars == <<rMode, rpc, rBatch, rWake, rStart, rMsg, rError, rStolen, rConsumed>>
extVars == <<lateVars, fileVars, dbVars, dynVars, raceVars>>
s3Vars == <<s3Objects, dpc, dKey, dError, extVars>>
\* The state of the queue, log and storage helpers.
coreVars == <<queue, waitVars, histVars, logVars, suiteVars, purgeVars, s3Objects, dpc,
              dKey, dError>>
cleanVars == <<suiteVars, purgeVars, s3Vars>>
vars == <<now, test, queue, wpc, wStartTime, wExpected, wTimeoutMs, wWake, wLast,
          wCount, wError, wSeenN, wDrained, wReadEnd, logStore, lpc, lStartTime, lCallTime, lReadEnd,
          lEndTime, lWake, lLast, lEvents, lResult, lError, cfgTimeout, spc, sError,
          sCount, sConc, sExpectDLQ, calls, lI, lBatchSize, sIssued, sSent, sWake,
          sRemaining,
          ppc, pBatch, pWake, pError, pCalls, pReads, pDeletes, pEntries, pRead,
          pDone, pQuiet, pQueue0, s3Objects, dpc, dKey, dError, sLate,
          fileExists, fpc, fI, fTimeoutMs, fStart, fWake, fChecks, fFound, fExisted,
          fEvents, qHelper, qpc, qParams, qInputs, qOpen, qCalls, qFailed, qError,
          dyRecord, dypc, dyItem, dyKey, dyTable, dyResult, dyError,
          rMode, rpc, rBatch, rWake, rStart, rMsg, rError, rStolen, rConsumed>>

\* The message ids the queue of the test case can hold.
Msgs == DOMAIN queue

NoError == [kind |-> "none"]
TransportError == [kind |-> "TransportError"]

\* ---------------------------------------------------------- the queue --
Visible == {m \in Msgs : queue[m] = "visible"}
Sent == {m \in Msgs : queue[m] # "unsent"}
Processed == {m \in Msgs : queue[m] = "processed"}

\* The ids of S in ascending order (the order a receive returns them in).
RECURSIVE SeqOf(_)
SeqOf(S) ==
    IF S = {} THEN <<>>
    ELSE LET m == CHOOSE x \in S : \A y \in S : x <= y
         IN <<m>> \o SeqOf(S \ {m})

\* Mutant: the queue delivers deleted messages again.
ReceiveBatchesRedelivering(maxMessages) ==
    {B \in SUBSET {m \in Msgs : queue[m] \in {"visible", "purged"}} :
        Cardinality(B) <= maxMessages}

\* response.Messages || [] of a receive: at most maxMessages visible messages.
ReceiveBatches(maxMessages) ==
    {B \in SUBSET Visible : Cardinality(B) = Min(Cardinality(Visible), maxMessages)}

\* A received message stays in the queue, invisible, until deleted.
TakeBatch(B, holder) == [m \in Msgs |-> IF m \in B THEN holder ELSE queue[m]]

\* ------------------------------------------------------------ history --
WaitActive == wpc \in {"delay", "check", "reading"}
BeforeDeadline == now < wStartTime + wTimeoutMs
SeenNow == WaitActive /\ BeforeDeadline /\ Cardinality(Visible) = wExpected
DrainedNow == WaitActive /\ BeforeDeadline /\ Sent # {} /\ Processed = Sent
\* Every action ends by recording what an observer of the queue has seen.
History ==
    /\ wSeenN' = (wSeenN \/ SeenNow')
    /\ wDrained' = (wDrained \/ DrainedNow')
    /\ wReadEnd' = IF wpc = "reading" /\ wpc' # "reading" THEN now ELSE wReadEnd

\* ------------------------------------------- waitForLambdaProcessing --
\* Mutant: the deadline itself still counts as inside the budget.
WithinDeadlineInclusive(t, startTime, timeoutMs) == t - startTime <= timeoutMs

\* while (Date.now() - startTime < timeoutMs)
WithinDeadline(t, startTime, timeoutMs) == t - startTime < timeoutMs

\* Mutant: a read returning at least the expected count satisfies the wait.
CountAtLeast(count, expectedMessageCount) == count >= expectedMessageCount

\* if (messages.length === expectedMessageCount)
CountMatches(count, expectedMessageCount) == count = expectedMessageCount

\* Mutant: a mismatch re-reads at once, without evaluating the loop condition.
WaitAfterReadRetry(matched) == IF matched THEN "satisfied" ELSE "reading"

\* return inside the loop, otherwise back to the loop condition
WaitAfterRead(matched) == IF matched THEN "satisfied" ELSE "check"

\* Mutant: a rejected receive is caught and the loop goes on.
ReadFailureRetry == "check"

\* The receive is awaited without try/catch: its rejection rejects the call.
ReadFailureNext == "error"

\* Mutant: the message interpolates the count of the last read.
TimeoutErrorObserved(expectedMessageCount) ==
    [kind |-> "Timeout", expected |-> wCount]

\* new Error(`Timeout waiting for Lambda processing. Expected ${expectedMessageCount} messages`)
TimeoutError(expectedMessageCount) ==
    [kind |-> "Timeout", expected |-> expectedMessageCount]

\* this.config.timeout || 30000
EffectiveTimeout(t) == IF t = 0 THEN SuiteDefaultTimeoutMs ELSE t

\* this.config.timeout || 60000
LoadEffectiveTimeout(t) == IF t = 0 THEN LoadDefaultTimeoutMs ELSE t

\* Mutant: the first receive is issued without the initial delay.
NoInitialDelay(startTime) == startTime

\* await new Promise(resolve => setTimeout(resolve, 10000)): when it resolves
InitialDelayDue(startTime) == startTime + InitialDelayMs

\* const startTime = Date.now(); await new Promise(r => setTimeout(r, 10000))
WaitCall(n, t) ==
    /\ \/ test = "wait"
       \/ test = "count" /\ n = Cardinality(Msgs) /\ t \in CountTimeoutChoices
       \/ test \in {"single", "race"} /\ spc = "wait" /\ n = 0
          /\ t = EffectiveTimeout(cfgTimeout)
       \/ test = "batch" /\ spc = "wait" /\ n = 0 /\ t = EffectiveTimeout(cfgTimeout)
       \/ test = "load" /\ spc = "wait" /\ n = 0 /\ t = LoadEffectiveTimeout(cfgTimeout)
    /\ wpc = "idle"
    /\ wpc' = "delay"
    /\ wStartTime' = now
    /\ wExpected' = n
    /\ wTimeoutMs' = t
    /\ wWake' = InitialDelayDue(now)
    /\ UNCHANGED <<now, test, queue, wLast, wCount, wError, logVars, cleanVars>>
    /\ History

\* The initial delay has elapsed.
WaitDelayDone ==
    /\ wpc = "delay"
    /\ now = wWake
    /\ wpc' = "check"
    /\ UNCHANGED <<now, test, queue, wStartTime, wExpected, wTimeoutMs, wWake, wLast,
                   wCount, wError, logVars, cleanVars>>
    /\ History

\* The loop condition: issue the next receive, or throw the timeout error.
WaitCheck ==
    /\ wpc = "check"
    /\ IF WithinDeadline(now, wStartTime, wTimeoutMs)
       THEN /\ wpc' = "reading"
            /\ wWake' = now + WaitTimeMs
            /\ UNCHANGED wError
       ELSE /\ wpc' = "timeout"
            /\ wError' = TimeoutError(wExpected)
            /\ UNCHANGED wWake
    /\ UNCHANGED <<now, test, queue, wStartTime, wExpected, wTimeoutMs, wLast, wCount,
                   logVars, cleanVars>>
    /\ History

\* The receive resolves: at once when messages are visible, else when the
\* long poll expires.  The messages it returns become invisible.
WaitReceive ==
    /\ wpc = "reading"
    /\ Visible # {} \/ now = wWake
    /\ \E B \in ReceiveBatches(DefaultMaxMessages) :
        /\ queue' = TakeBatch(B, "harness")
        /\ wCount' = Len(SeqOf(B))
        /\ wpc' = WaitAfterRead(CountMatches(Len(SeqOf(B)), wExpected))
    /\ wLast' = "ok"
    /\ UNCHANGED <<now, test, wStartTime, wExpected, wTimeoutMs, wWake, wError, logVars, cleanVars>>
    /\ History

\* The receive rejects (network, auth, throttling).
WaitReceiveFail ==
    /\ wpc = "reading"
    /\ wLast' = "failed"
    /\ wError' = TransportError
    /\ wpc' = ReadFailureNext
    /\ UNCHANGED <<now, test, queue, wStartTime, wExpected, wTimeoutMs, wWake, wCount,
                   logVars, cleanVars>>
    /\ History

\* ------------------------------------------------- the queue's clients --
\* The test case that uses the queue is still running.
QueueLive ==
    \/ test = "wait" /\ wpc \notin {"satisfied", "timeout", "error"}
    \/ test = "purge" /\ ppc \in {"idle", "receive", "delete"}
    \/ test \in {"single", "batch", "error", "load"} /\ spc \notin {"done", "failed"}
    \/ test = "race" /\ (spc \notin {"done", "failed"} \/ rpc \notin {"done", "failed"})

\* A test sends its stimulus messages, in any order, before it waits; earlier
\* tests may have left messages in the queue before a scenario starts.
SendMessage(m) ==
    /\ \/ test = "wait" /\ wpc = "idle"
       \/ test = "single" /\ spc = "start" /\ Cardinality(Sent) < MaxMsgs - 1
       \/ test \in {"batch", "error", "load"} /\ spc = "start" /\ Sent = {} /\ m > sCount
    /\ queue[m] = "unsent"
    /\ queue' = [queue EXCEPT ![m] = "visible"]
    /\ UNCHANGED <<now, test, waitVars, logVars, cleanVars>>
    /\ History

\* The Lambda event source receives a visible message ...
LambdaReceive(m) ==
    /\ QueueLive
    /\ queue[m] = "visible"
    /\ queue' = [queue EXCEPT ![m] = "lambda"]
    /\ UNCHANGED <<now, test, waitVars, logVars, cleanVars>>
    /\ History

\* ... and deletes it after the function processed it,
LambdaDelete(m) ==
    /\ queue[m] = "lambda"
    /\ QueueLive
    /\ queue' = [queue EXCEPT ![m] = "processed"]
    /\ UNCHANGED <<now, test, waitVars, logVars, cleanVars>>
    /\ History

\* ... or the function fails and the message becomes visible again.
LambdaReturn(m) ==
    /\ queue[m] = "lambda"
    /\ QueueLive
    /\ queue' = [queue EXCEPT ![m] = "visible"]
    /\ UNCHANGED <<now, test, waitVars, logVars, cleanVars>>
    /\ History

\* The visibility timeout of a message the harness received expires.
VisibilityTimeout(m) ==
    /\ queue[m] = "harness"
    /\ QueueLive
    /\ queue' = [queue EXCEPT ![m] = "visible"]
    /\ UNCHANGED <<now, test, waitVars, logVars, cleanVars>>
    /\ History

\* -------------------------------------------------------- getLogEvents --
LogLines == {"hit", "miss"}
\* filter.filterPattern of the tests: the text the function logs.
FilterPattern == "hit"
\* filter.startTime values: Date.now() - 1000 taken just before the call (the
\* tests), taken 30 s before the call, the call time, and a time after it.
FilterStartChoices == {0 - 30000, 0 - 1000, 0, 2000}
\* How long a query takes to answer.
Latencies == {k * TickMs : k \in 0..MaxLatencyTicks}

\* Mutant: the loop compares the clock itself with the budget.
LogWithinDeadlineNoStart(t, startTime) == t < LogTimeoutMs

\* while (Date.now() - startTime < timeoutMs), startTime = filter.startTime
LogWithinDeadline(t, startTime) == t - startTime < LogTimeoutMs

\* Mutant: the service ignores the filter pattern.
FilterLogEventsAnyPattern(store, pattern, startTime, endTime) ==
    SelectSeq(store, LAMBDA e : /\ startTime <= e.timestamp
                                /\ e.timestamp <= endTime)

\* FilterLogEvents: the entries that match the pattern inside [startTime, endTime].
FilterLogEvents(store, pattern, startTime, endTime) ==
    SelectSeq(store, LAMBDA e : /\ e.message = pattern
                                /\ startTime <= e.timestamp
                                /\ e.timestamp <= endTime)

\* if (events.length > 0) return events; else sleep one second
LogAfterQuery(events) == IF Len(events) > 0 THEN "satisfied" ELSE "sleep"

\* return [] after the loop
LogTimeoutResult == <<>>

\* The query is awaited without try/catch: its rejection rejects the call.
LogFailureNext == "error"

\* const startTime = filter.startTime
LogCall(fs) ==
    /\ test = "logs"
    /\ lpc = "idle"
    /\ lpc' = "check"
    /\ lStartTime' = fs
    /\ lCallTime' = now
    /\ UNCHANGED <<now, test, queue, waitVars, histVars, cleanVars, logStore, lReadEnd, lEndTime, lWake,
                   lLast, lEvents, lResult, lError>>

\* The loop condition: send the next query, or return the empty array.
LogCheck ==
    /\ lpc = "check"
    /\ IF LogWithinDeadline(now, lStartTime)
       THEN /\ lpc' = "querying"
            /\ lEndTime' = now
            /\ \E d \in Latencies : lWake' = now + d
            /\ UNCHANGED lResult
       ELSE /\ lpc' = "empty"
            /\ lResult' = LogTimeoutResult
            /\ UNCHANGED <<lEndTime, lWake>>
    /\ UNCHANGED <<now, test, queue, waitVars, histVars, cleanVars, logStore, lStartTime, lCallTime,
                   lReadEnd, lLast, lEvents, lError>>

\* The query resolves with the matching entries of its window.
LogResponse ==
    /\ lpc = "querying"
    /\ now = lWake
    /\ LET events == FilterLogEvents(logStore, FilterPattern, lStartTime, lEndTime)
       IN /\ lEvents' = events
          /\ lpc' = LogAfterQuery(events)
          /\ IF LogAfterQuery(events) = "satisfied"
             THEN lResult' = events /\ UNCHANGED lWake
             ELSE lWake' = now + SleepMs /\ UNCHANGED lResult
    /\ lLast' = "ok"
    /\ lReadEnd' = now
    /\ UNCHANGED <<now, test, queue, waitVars, histVars, cleanVars, logStore, lStartTime, lCallTime,
                   lEndTime, lError>>

\* The query rejects.
LogResponseFail ==
    /\ lpc = "querying"
    /\ now = lWake
    /\ lLast' = "failed"
    /\ lReadEnd' = now
    /\ lError' = TransportError
    /\ lpc' = LogFailureNext
    /\ UNCHANGED <<now, test, queue, waitVars, histVars, cleanVars, logStore, lStartTime, lCallTime,
                   lEndTime, lWake, lEvents, lResult>>

\* The one-second sleep has elapsed.
LogSleepDone ==
    /\ lpc = "sleep"
    /\ now = lWake
    /\ lpc' = "check"
    /\ UNCHANGED <<now, test, queue, waitVars, histVars, cleanVars, logStore, lStartTime, lCallTime,
                   lReadEnd, lEndTime, lWake, lLast, lEvents, lResult, lError>>

\* The function under test writes a log line, which is visible at once.
LogEmit(line) ==
    /\ test = "logs"
    /\ lpc \notin {"satisfied", "empty", "error"}
    /\ Len(logStore) < MaxLogEntries
    /\ logStore' = Append(logStore, [timestamp |-> now, message |-> line])
    /\ UNCHANGED <<now, test, queue, waitVars, histVars, cleanVars, lpc, lStartTime, lCallTime,
                   lReadEnd, lEndTime, lWake, lLast, lEvents, lResult, lError>>

\* ---------------------------------------------------------- purgeQueue --
\* Mutant: purgeQueue catches the rejection, logs it and returns.
PurgeFailureSwallowed == "done"

\* Neither purgeQueue nor deleteS3Object catches: a rejected remote call
\* rejects the cleanup call.
PurgeFailureNext == "error"
S3DeleteFailureNext == "error"

\* What a purgeQueue call finds: which messages are visible, which are in
\* flight (received and not deleted), which have been deleted by a purge.
AtCall(q) ==
    [visible |-> {m \in DOMAIN q : q[m] = "visible"},
     inflight |-> {m \in DOMAIN q : q[m] \in {"lambda", "harness"}},
     purged |-> {m \in DOMAIN q : q[m] = "purged"}]

\* A history counter that stops at MaxCounted.
Counted(n) == Min(n, MaxCounted)

\* Mutant: the loop body runs at most once (if instead of while).
PurgeAfterReadOnce(count) == "done"

\* while (messages.length > 0): delete the batch, else return
PurgeAfterRead(count) == IF count > 0 THEN "delete" ELSE "done"

\* let messages = await this.receiveMessages(queueUrl)
PurgeCall ==
    /\ ppc \in {"idle", "done"}
    /\ ppc' = "receive"
    /\ pWake' = now + WaitTimeMs
    /\ pCalls' = pCalls + 1
    /\ pReads' = 0
    /\ pDeletes' = 0
    /\ pEntries' = 0
    /\ pRead' = <<>>
    /\ pDone' = <<>>
    /\ pQuiet' = TRUE
    /\ pQueue0' = AtCall(queue)
    /\ UNCHANGED <<pBatch, pError>>

\* The receive resolves; while (messages.length > 0) ...
PurgeReceive ==
    /\ ppc = "receive"
    /\ Visible # {} \/ now = pWake
    /\ \E B \in ReceiveBatches(DefaultMaxMessages) :
        /\ queue' = TakeBatch(B, "harness")
        /\ pBatch' = SeqOf(B)
        /\ ppc' = PurgeAfterRead(Len(SeqOf(B)))
        /\ pRead' = SeqOf(B)
        /\ pEntries' = Counted(pEntries + Len(SeqOf(B)))
    /\ pDone' = <<>>
    /\ pReads' = Counted(pReads + 1)
    /\ UNCHANGED <<now, test, waitVars, logVars, suiteVars, pWake, pError, pCalls,
                   pDeletes, pQuiet, pQueue0, s3Vars>>
    /\ History

\* The receive rejects.
PurgeReceiveFail ==
    /\ ppc = "receive"
    /\ ppc' = PurgeFailureNext
    /\ pError' = TransportError
    /\ UNCHANGED <<now, test, queue, waitVars, histVars, logVars, suiteVars, pBatch,
                   pWake, purgeHist, s3Vars>>

\* await this.deleteMessage(queueUrl, message.ReceiptHandle), in the order
\* received; after the last one the next receive is issued.
PurgeDelete ==
    /\ ppc = "delete"
    /\ queue' = [queue EXCEPT ![Head(pBatch)] = "purged"]
    /\ pBatch' = Tail(pBatch)
    /\ IF Tail(pBatch) = <<>>
       THEN ppc' = "receive" /\ pWake' = now + WaitTimeMs
       ELSE UNCHANGED <<ppc, pWake>>
    /\ pDone' = Append(pDone, Head(pBatch))
    /\ pDeletes' = Counted(pDeletes + 1)
    /\ UNCHANGED <<now, test, waitVars, logVars, suiteVars, pError, pCalls, pReads,
                   pEntries, pRead, pQuiet, pQueue0, s3Vars>>
    /\ History

\* The delete rejects.
PurgeDeleteFail ==
    /\ ppc = "delete"
    /\ ppc' = PurgeFailureNext
    /\ pError' = TransportError
    /\ UNCHANGED <<now, test, queue, waitVars, histVars, logVars, suiteVars, pBatch,
                   pWake, purgeHist, s3Vars>>

\* A test case calls purgeQueue, and calls it again once it has returned.
PurgeTest ==
    /\ test = "purge"
    /\ pCalls < MaxPurgeCalls
    /\ PurgeCall
    /\ UNCHANGED <<now, test, queue, waitVars, histVars, logVars, suiteVars, s3Vars>>

\* Another producer sends a message to the queue, before or while it is
\* purged, up to the end of the first long poll.  A deleted message is gone,
\* so its id stands for a new message.
ProducerSend(m) ==
    /\ test = "purge"
    /\ ppc \in {"idle", "receive", "delete"}
    /\ now <= WaitTimeMs
    /\ queue[m] \in {"unsent", "processed", "purged"}
    /\ queue' = [queue EXCEPT ![m] = "visible"]
    /\ pQuiet' = FALSE
    /\ UNCHANGED <<now, test, waitVars, logVars, suiteVars, ppc, pBatch, pWake, pError,
                   pCalls, pReads, pDeletes, pEntries, pRead, pDone, pQueue0, s3Vars>>
    /\ History

\* --------------------------------------------------- testSingleMessage --
\* Mutant: testSingleMessage returns without awaiting waitForLambdaProcessing.
RunFinishedAtSend(pc) == pc \in {"wait", "delay", "check", "reading", "done", "failed"}

\* testSingleMessage has returned or rejected.
RunFinished(pc) == pc \in {"done", "failed"}

\* A test that awaits one run before it starts the next starts a run only
\* when the other has not started or has finished.
MayStart(other) ==
    rMode = "concurrent" \/ other \in {"start", "idle"} \/ RunFinished(other)

\* await this.lambdaHelper.purgeQueue(this.config.queueUrl)
SingleStart ==
    /\ test \in {"single", "race"}
    /\ test = "race" => MayStart(rpc)
    /\ spc = "start"
    /\ spc' = "purge"
    /\ PurgeCall
    /\ UNCHANGED <<now, test, queue, waitVars, histVars, logVars, cfgTimeout, sError,
                   suiteExt, s3Vars>>

\* purgeQueue returned: go on to send the message.
SinglePurgeDone ==
    /\ test \in {"single", "race"}
    /\ spc = "purge"
    /\ ppc = "done"
    /\ spc' = "send"
    /\ sIssued' = sIssued + 1
    /\ UNCHANGED <<now, test, queue, waitVars, histVars, logVars, cfgTimeout, sError,
                   sCount, sConc, sExpectDLQ, calls, lI, lBatchSize, sSent, sWake,
                   sRemaining, purgeVars, s3Vars>>

\* purgeQueue rejected: the scenario rejects with its error.
SinglePurgeFailed ==
    /\ test \in {"single", "race"}
    /\ spc = "purge"
    /\ ppc = "error"
    /\ spc' = "failed"
    /\ sError' = pError
    /\ UNCHANGED <<now, test, queue, waitVars, histVars, logVars, cfgTimeout, suiteExt,
                   purgeVars, s3Vars>>

\* const messageId = await this.lambdaHelper.sendMessage(...)
SingleSend(m) ==
    /\ test \in {"single", "race"}
    /\ spc = "send"
    /\ queue[m] = "unsent"
    /\ queue' = [queue EXCEPT ![m] = "visible"]
    /\ spc' = "wait"
    /\ sSent' = sSent + 1
    /\ UNCHANGED <<now, test, waitVars, logVars, cfgTimeout, sError, sCount, sConc,
                   sExpectDLQ, calls, lI, lBatchSize, sIssued, sWake, sRemaining,
                   purgeVars, s3Vars>>
    /\ History

\* The send rejects.
SingleSendFail ==
    /\ test \in {"single", "race"}
    /\ spc = "send"
    /\ spc' = "failed"
    /\ sError' = TransportError
    /\ UNCHANGED <<now, test, queue, waitVars, histVars, logVars, cfgTimeout, suiteExt,
                   purgeVars, s3Vars>>

\* waitForLambdaProcessing returned: return { messageId, processingTime }.
SingleWaitDone ==
    /\ test \in {"single", "race"}
    /\ spc = "wait"
    /\ wpc = "satisfied"
    /\ spc' = "done"
    /\ UNCHANGED <<now, test, queue, waitVars, histVars, logVars, cfgTimeout, sError,
                   suiteExt, purgeVars, s3Vars>>

\* waitForLambdaProcessing rejected: the scenario rejects with its error.
SingleWaitFailed ==
    /\ test \in {"single", "race"}
    /\ spc = "wait"
    /\ wpc \in {"timeout", "error"}
    /\ spc' = "failed"
    /\ sError' = wError
    /\ UNCHANGED <<now, test, queue, waitVars, histVars, logVars, cfgTimeout, suiteExt,
                   purgeVars, s3Vars>>

\* ------------------------------------------------------- sendMessages --
\* Mutant: the for-of loop walks the array from its end.
NextMessageReversed(call) == call.msgs[Len(call.msgs) - call.sent]

\* for (const message of messages): the message of the pending send
NextMessage(call) == call.msgs[call.sent + 1]

\* The response of a SendMessageCommand that succeeded.
SendResponse(m) == [MessageId |-> m]

\* return response.MessageId || ''   ('' is 0)
MessageIdOf(response) ==
    IF "MessageId" \in DOMAIN response /\ response.MessageId # 0
    THEN response.MessageId
    ELSE 0

\* sendMessages(queueUrl, messages) is called: messageIds = [], and the send
\* of the first message is issued; with no messages it returns [] at once.
NewCall(messages) ==
    [msgs |-> messages, sent |-> 0, ids |-> <<>>,
     pc |-> IF messages = <<>> THEN "done" ELSE "sending"]

\* The pending send of call k resolves: messageIds.push(messageId); the send
\* of the next message is issued, or the call returns messageIds.
SendSettle(k) ==
    /\ test \in {"batch", "load"}
    /\ spc # "build"
    /\ calls[k].pc = "sending"
    /\ LET call == calls[k]
           m == NextMessage(call)
           last == call.sent + 1 = Len(call.msgs)
       IN /\ queue' = [queue EXCEPT ![m] = "visible"]
          /\ calls' = [calls EXCEPT ![k] =
                          [msgs |-> call.msgs,
                           sent |-> call.sent + 1,
                           ids |-> Append(call.ids, MessageIdOf(SendResponse(m))),
                           pc |-> IF last THEN "done" ELSE "sending"]]
          /\ sIssued' = IF last THEN sIssued ELSE sIssued + 1
    /\ sSent' = sSent + 1
    /\ sLate' = IF spc = "failed" THEN sLate + 1 ELSE sLate
    /\ UNCHANGED <<now, test, waitVars, logVars, cfgTimeout, spc, sError, sCount, sConc,
                   sExpectDLQ, lI, lBatchSize, sWake, sRemaining, purgeVars,
                   s3Objects, dpc, dKey, dError, fileVars, dbVars, dynVars, raceVars>>
    /\ History

\* The pending send of call k rejects: the call rejects, its loop ends.
SendFail(k) ==
    /\ test \in {"batch", "load"}
    /\ spc # "build"
    /\ calls[k].pc = "sending"
    /\ calls' = [calls EXCEPT ![k].pc = "failed"]
    /\ UNCHANGED <<now, test, queue, waitVars, histVars, logVars, cfgTimeout, spc, sError,
                   sCount, sConc, sExpectDLQ, lI, lBatchSize, sIssued, sSent, sWake,
                   sRemaining, purgeVars, s3Vars>>

\* ------------------------- testBatchMessages / testErrorHandling / load --
\* Mutant: the scenario goes on without awaiting purgeQueue.
PurgeStarted(pc) == pc # "idle"

\* await this.lambdaHelper.purgeQueue(...): the call has returned
PurgeReturned(pc) == pc = "done"

\* Mutant: the end index of a slice is inclusive.
SliceInclusive(n, i, j) == [k \in 1..(Min(j + 1, n) - i) |-> i + k]

\* messages.slice(i, j) of the n generated messages; message k has id k
Slice(n, i, j) == [k \in 1..(Min(j, n) - i) |-> i + k]

\* Math.ceil(messageCount / concurrencyLevel)
Ceil(n, c) == (n + c - 1) \div c

AssertionError == [kind |-> "AssertionError"]

\* await this.lambdaHelper.purgeQueue(this.config.queueUrl)
SuiteStart(t) ==
    /\ t \in {"batch", "error", "load"}
    /\ test = t
    /\ spc = "start"
    /\ spc' = "purge"
    /\ PurgeCall
    /\ UNCHANGED <<now, test, queue, waitVars, histVars, logVars, cfgTimeout, sError,
                   suiteExt, s3Vars>>

\* purgeQueue rejected: the scenario rejects with its error.
SuitePurgeFailed ==
    /\ test \in {"batch", "error", "load"}
    /\ spc = "purge"
    /\ ppc = "error"
    /\ spc' = "failed"
    /\ sError' = pError
    /\ UNCHANGED <<now, test, queue, waitVars, histVars, logVars, cfgTimeout, suiteExt,
                   purgeVars, s3Vars>>

\* testBatchMessages: await this.lambdaHelper.sendMessages(queueUrl, messages)
BatchPurgeDone ==
    /\ test = "batch"
    /\ spc = "purge"
    /\ PurgeReturned(ppc)
    /\ spc' = "send"
    /\ calls' = <<NewCall(Slice(sCount, 0, sCount))>>
    /\ sIssued' = IF sCount > 0 THEN sIssued + 1 ELSE sIssued
    /\ UNCHANGED <<now, test, queue, waitVars, histVars, logVars, cfgTimeout, sError,
                   sCount, sConc, sExpectDLQ, lI, lBatchSize, sSent, sWake, sRemaining,
                   purgeVars, s3Vars>>

\* sendMessages returned: expect(messageIds).toHaveLength(messages.length)
BatchSendsDone ==
    /\ test = "batch"
    /\ spc = "send"
    /\ calls[1].pc = "done"
    /\ IF Len(calls[1].ids) = sCount
       THEN spc' = "wait" /\ UNCHANGED sError
       ELSE spc' = "failed" /\ sError' = AssertionError
    /\ UNCHANGED <<now, test, queue, waitVars, histVars, logVars, cfgTimeout, suiteExt,
                   purgeVars, s3Vars>>

\* testLoadPerformance: const batchSize = Math.ceil(...); const batches = []
LoadPurgeDone ==
    /\ test = "load"
    /\ spc = "purge"
    /\ PurgeReturned(ppc)
    /\ spc' = "build"
    /\ lBatchSize' = Ceil(sCount, sConc)
    /\ lI' = 0
    /\ calls' = <<>>
    /\ UNCHANGED <<now, test, queue, waitVars, histVars, logVars, cfgTimeout, sError,
                   sCount, sConc, sExpectDLQ, sIssued, sSent, sWake, sRemaining,
                   purgeVars, s3Vars>>

\* for (let i = 0; i < messageCount; i += batchSize)
\*     batches.push(this.lambdaHelper.sendMessages(queueUrl, messages.slice(i, i + batchSize)))
\* and after the loop: await Promise.all(batches)
LoadLoop ==
    /\ test = "load"
    /\ spc = "build"
    /\ IF lI < sCount
       THEN LET batch == Slice(sCount, lI, lI + lBatchSize)
            IN /\ calls' = Append(calls, NewCall(batch))
               /\ sIssued' = IF batch # <<>> THEN sIssued + 1 ELSE sIssued
               /\ lI' = lI + lBatchSize
               /\ UNCHANGED spc
       ELSE /\ spc' = "send"
            /\ UNCHANGED <<calls, sIssued, lI>>
    /\ UNCHANGED <<now, test, queue, waitVars, histVars, logVars, cfgTimeout, sError,
                   sCount, sConc, sExpectDLQ, lBatchSize, sSent, sWake, sRemaining,
                   purgeVars, s3Vars>>

\* Mutant: Promise.allSettled, which waits for every call and never rejects.
AllSettled(cs) == \A k \in 1..Len(cs) : cs[k].pc \in {"done", "failed"}

\* Promise.all(batches) resolves once every sendMessages call has returned ...
AllResolved(cs) == \A k \in 1..Len(cs) : cs[k].pc = "done"

\* ... and rejects as soon as one of them rejects.
AnyRejected(cs) == \E k \in 1..Len(cs) : cs[k].pc = "failed"

\* await Promise.all(batches) resolved
LoadSendsDone ==
    /\ test = "load"
    /\ spc = "send"
    /\ AllResolved(calls)
    /\ spc' = "wait"
    /\ UNCHANGED <<now, test, queue, waitVars, histVars, logVars, cfgTimeout, sError,
                   suiteExt, purgeVars, s3Vars>>

\* A sendMessages call rejected: the await rejects and the scenario with it
\* (in testLoadPerformance the other calls go on sending).
SuiteSendsFailed ==
    /\ test \in {"batch", "load"}
    /\ spc = "send"
    /\ AnyRejected(calls)
    /\ spc' = "failed"
    /\ sError' = TransportError
    /\ UNCHANGED <<now, test, queue, waitVars, histVars, logVars, cfgTimeout, suiteExt,
                   purgeVars, s3Vars>>

\* waitForLambdaProcessing returned: the scenario returns its measurements.
SuiteWaitDone ==
    /\ test \in {"batch", "load"}
    /\ spc = "wait"
    /\ wpc = "satisfied"
    /\ spc' = "done"
    /\ UNCHANGED <<now, test, queue, waitVars, histVars, logVars, cfgTimeout, sError,
                   suiteExt, purgeVars, s3Vars>>

\* waitForLambdaProcessing rejected: the scenario rejects with its error.
SuiteWaitFailed ==
    /\ test \in {"batch", "load"}
    /\ spc = "wait"
    /\ wpc \in {"timeout", "error"}
    /\ spc' = "failed"
    /\ sError' = wError
    /\ UNCHANGED <<now, test, queue, waitVars, histVars, logVars, cfgTimeout, suiteExt,
                   purgeVars, s3Vars>>

\* testErrorHandling: await this.lambdaHelper.sendMessage(queueUrl, invalidMessage)
ErrorPurgeDone ==
    /\ test = "error"
    /\ spc = "purge"
    /\ PurgeReturned(ppc)
    /\ spc' = "send"
    /\ sIssued' = sIssued + 1
    /\ UNCHANGED <<now, test, queue, waitVars, histVars, logVars, cfgTimeout, sError,
                   sCount, sConc, sExpectDLQ, calls, lI, lBatchSize, sSent, sWake,
                   sRemaining, purgeVars, s3Vars>>

\* The send resolves; await new Promise(resolve => setTimeout(resolve, 5000))
ErrorSend ==
    /\ test = "error"
    /\ spc = "send"
    /\ queue' = [queue EXCEPT ![1] = "visible"]
    /\ spc' = "sleep"
    /\ sSent' = sSent + 1
    /\ sWake' = now + ErrorSettleMs
    /\ UNCHANGED <<now, test, waitVars, logVars, cfgTimeout, sError, sCount, sConc,
                   sExpectDLQ, calls, lI, lBatchSize, sIssued, sRemaining, purgeVars,
                   s3Vars>>
    /\ History

\* The send rejects.
ErrorSendFail ==
    /\ test = "error"
    /\ spc = "send"
    /\ spc' = "failed"
    /\ sError' = TransportError
    /\ UNCHANGED <<now, test, queue, waitVars, histVars, logVars, cfgTimeout, suiteExt,
                   purgeVars, s3Vars>>

\* const remainingMessages = await this.lambdaHelper.receiveMessages(queueUrl)
ErrorSleepDone ==
    /\ test = "error"
    /\ spc = "sleep"
    /\ now = sWake
    /\ spc' = "remaining"
    /\ sWake' = now + WaitTimeMs
    /\ UNCHANGED <<now, test, queue, waitVars, histVars, logVars, cfgTimeout, sError,
                   sCount, sConc, sExpectDLQ, calls, lI, lBatchSize, sIssued, sSent,
                   sRemaining, purgeVars, s3Vars>>

\* The receive resolves: expect(remainingMessages).toHaveLength(0) if expectDLQ
ErrorReceive ==
    /\ test = "error"
    /\ spc = "remaining"
    /\ Visible # {} \/ now = sWake
    /\ \E B \in ReceiveBatches(DefaultMaxMessages) :
        /\ queue' = TakeBatch(B, "harness")
        /\ sRemaining' = Len(SeqOf(B))
        /\ IF sExpectDLQ /\ Len(SeqOf(B)) # 0
           THEN spc' = "failed" /\ sError' = AssertionError
           ELSE spc' = "done" /\ UNCHANGED sError
    /\ UNCHANGED <<now, test, waitVars, logVars, cfgTimeout, sCount, sConc, sExpectDLQ,
                   calls, lI, lBatchSize, sIssued, sSent, sWake, purgeVars, s3Vars>>
    /\ History

\* The receive rejects.
ErrorReceiveFail ==
    /\ test = "error"
    /\ spc = "remaining"
    /\ spc' = "failed"
    /\ sError' = TransportError
    /\ UNCHANGED <<now, test, queue, waitVars, histVars, logVars, cfgTimeout, suiteExt,
                   purgeVars, s3Vars>>

\* ------------------------------------------------------ deleteS3Object --
S3Keys == {"a.txt", "b.txt"}

\* uploadFileToS3: PutObjectCommand
S3Upload(key) ==
    /\ test = "s3"
    /\ dpc = "idle"
    /\ key \notin s3Objects
    /\ s3Objects' = s3Objects \cup {key}
    /\ UNCHANGED <<now, test, queue, waitVars, histVars, logVars, suiteVars, purgeVars,
                   dpc, dKey, dError, extVars>>

\* deleteS3Object(bucketName, fileName): send the DeleteObjectCommand
S3DeleteCall(key) ==
    /\ test = "s3"
    /\ dpc = "idle"
    /\ dpc' = "deleting"
    /\ dKey' = key
    /\ UNCHANGED <<now, test, queue, waitVars, histVars, logVars, suiteVars, purgeVars,
                   s3Objects, dError, extVars>>

\* The delete resolves (also for a key that does not exist); log and return.
S3DeleteOk ==
    /\ dpc = "deleting"
    /\ s3Objects' = s3Objects \ {dKey}
    /\ dpc' = "done"
    /\ UNCHANGED <<now, test, queue, waitVars, histVars, logVars, suiteVars, purgeVars,
                   dKey, dError, extVars>>

\* The delete rejects.
S3DeleteFail ==
    /\ dpc = "deleting"
    /\ dpc' = S3DeleteFailureNext
    /\ dError' = TransportError
    /\ UNCHANGED <<now, test, queue, waitVars, histVars, logVars, suiteVars, purgeVars,
                   s3Objects, dKey, extVars>>

\* --------------------------------------------------------- waitForFile --
\* const pollInterval = 500
PollIntervalMs == 500
\* timeoutMs values: 0, one that is no multiple of the poll interval, two
\* poll intervals, and the default.
FileTimeoutChoices == {0, 750, 1000, 10000}

\* Mutant: the loop runs while i <= maxTries.
LoopContinuesInclusive(i, timeoutMs) == i * PollIntervalMs <= timeoutMs

\* i < maxTries, with maxTries = timeoutMs / pollInterval (not rounded)
LoopContinues(i, timeoutMs) == i * PollIntervalMs < timeoutMs

\* The waitForFile call is running.
FileWaitActive == fpc \in {"loop", "exists", "sleep"}

\* waitForFile(filePath, timeoutMs) is called.
FileCall(t) ==
    /\ test = "file"
    /\ fpc = "idle"
    /\ fpc' = "loop"
    /\ fI' = 0
    /\ fTimeoutMs' = t
    /\ fStart' = now
    /\ fExisted' = fileExists
    /\ UNCHANGED <<now, test, coreVars, lateVars, dbVars, dynVars, raceVars, fileExists, fWake, fChecks, fFound, fEvents>>

\* The loop condition: check the file, or return false.
FileLoop ==
    /\ fpc = "loop"
    /\ fpc' = IF LoopContinues(fI, fTimeoutMs) THEN "exists" ELSE "false"
    /\ UNCHANGED <<now, test, coreVars, lateVars, dbVars, dynVars, raceVars, fileExists, fI, fTimeoutMs, fStart, fWake,
                   fChecks, fFound, fExisted, fEvents>>

\* if (await fileExists(filePath)) return true; else sleep one poll interval
FileChecked ==
    /\ fpc = "exists"
    /\ fChecks' = fChecks + 1
    /\ fFound' = fileExists
    /\ IF fileExists
       THEN fpc' = "true" /\ UNCHANGED fWake
       ELSE fpc' = "sleep" /\ fWake' = now + PollIntervalMs
    /\ UNCHANGED <<now, test, coreVars, lateVars, dbVars, dynVars, raceVars, fileExists, fI, fTimeoutMs, fStart,
                   fExisted, fEvents>>

\* The sleep has elapsed: i++
FileSleepDone ==
    /\ fpc = "sleep"
    /\ now = fWake
    /\ fI' = fI + 1
    /\ fpc' = "loop"
    /\ UNCHANGED <<now, test, coreVars, lateVars, dbVars, dynVars, raceVars, fileExists, fTimeoutMs, fStart, fWake,
                   fChecks, fFound, fExisted, fEvents>>

\* The program under test writes the file ...
FileCreate ==
    /\ test = "file"
    /\ fpc \in {"idle", "loop", "exists", "sleep"}
    /\ ~fileExists
    /\ fEvents < MaxFileEvents
    /\ fileExists' = TRUE
    /\ fEvents' = fEvents + 1
    /\ fExisted' = (fExisted \/ (FileWaitActive /\ now - fStart <= fTimeoutMs))
    /\ UNCHANGED <<now, test, coreVars, lateVars, dbVars, dynVars, raceVars, fpc, fI, fTimeoutMs, fStart, fWake,
                   fChecks, fFound>>

\* ... or something removes it.
FileRemove ==
    /\ test = "file"
    /\ fpc \in {"idle", "loop", "exists", "sleep"}
    /\ fileExists
    /\ fEvents < MaxFileEvents
    /\ fileExists' = FALSE
    /\ fEvents' = fEvents + 1
    /\ UNCHANGED <<now, test, coreVars, lateVars, dbVars, dynVars, raceVars, fpc, fI, fTimeoutMs, fStart, fWake,
                   fChecks, fFound, fExisted>>

\* ------------------- PostgresTestHelper.query / SqlServerTestHelper.query --
Helpers == {"postgres", "sqlserver"}
QueryError == [kind |-> "QueryError"]

\* new Client(config) + client.connect() opens a connection of its own;
\* sql.connect(config) opens the global pool, or returns it when it is open.
Connected(helper, open) ==
    IF helper = "sqlserver" /\ open > 0 THEN open ELSE open + 1

\* client.end() / pool.close()
Closed(helper, open) == open - 1

\* The statement is awaited without try/finally: its rejection rejects the
\* call, and the statements after it (the close) are not executed.
StatementFailureNext == "failed"

\* query(queryString, params) is called: the connection is requested.
QueryCall(n) ==
    /\ test = "db"
    /\ qpc \in {"idle", "done", "failed"}
    /\ qCalls < MaxQueryCalls
    /\ qCalls' = qCalls + 1
    /\ qParams' = n
    /\ qInputs' = 0
    /\ qError' = NoError
    /\ qpc' = "connecting"
    /\ UNCHANGED <<now, test, coreVars, lateVars, fileVars, dynVars, raceVars, qHelper, qOpen, qFailed>>

\* await client.connect() / await sql.connect(config) resolves.
QueryConnected ==
    /\ qpc = "connecting"
    /\ qOpen' = Connected(qHelper, qOpen)
    /\ qpc' = IF qHelper = "sqlserver" THEN "inputs" ELSE "querying"
    /\ UNCHANGED <<now, test, coreVars, lateVars, fileVars, dynVars, raceVars, qHelper, qParams, qInputs, qCalls,
                   qFailed, qError>>

\* The connection cannot be established: the call rejects.
QueryConnectFail ==
    /\ qpc = "connecting"
    /\ qpc' = "failed"
    /\ qError' = TransportError
    /\ qFailed' = qFailed + 1
    /\ UNCHANGED <<now, test, coreVars, lateVars, fileVars, dynVars, raceVars, qHelper, qParams, qInputs, qOpen,
                   qCalls>>

\* for (const [key, value] of Object.entries(params)) request = request.input(key, value)
QueryInput ==
    /\ qpc = "inputs"
    /\ IF qInputs < qParams
       THEN qInputs' = qInputs + 1 /\ UNCHANGED qpc
       ELSE qpc' = "querying" /\ UNCHANGED qInputs
    /\ UNCHANGED <<now, test, coreVars, lateVars, fileVars, dynVars, raceVars, qHelper, qParams, qOpen, qCalls,
                   qFailed, qError>>

\* await client.query(...) / await request.query(...) resolves.
QueryStatementOk ==
    /\ qpc = "querying"
    /\ qpc' = "closing"
    /\ UNCHANGED <<now, test, coreVars, lateVars, fileVars, dynVars, raceVars, qHelper, qParams, qInputs, qOpen,
                   qCalls, qFailed, qError>>

\* The statement fails (syntax error, constraint violation, lost connection).
QueryStatementFail ==
    /\ qpc = "querying"
    /\ qpc' = StatementFailureNext
    /\ qError' = QueryError
    /\ qFailed' = qFailed + 1
    /\ UNCHANGED <<now, test, coreVars, lateVars, fileVars, dynVars, raceVars, qHelper, qParams, qInputs, qOpen,
                   qCalls>>

\* await client.end() / await pool.close() resolves; return the rows.
QueryClosed ==
    /\ qpc = "closing"
    /\ qOpen' = Closed(qHelper, qOpen)
    /\ qpc' = "done"
    /\ UNCHANGED <<now, test, coreVars, lateVars, fileVars, dynVars, raceVars, qHelper, qParams, qInputs, qCalls,
                   qFailed, qError>>

\* The close rejects: the call rejects, the connection is not released.
QueryCloseFail ==
    /\ qpc = "closing"
    /\ qpc' = "failed"
    /\ qError' = TransportError
    /\ qFailed' = qFailed + 1
    /\ UNCHANGED <<now, test, coreVars, lateVars, fileVars, dynVars, raceVars, qHelper, qParams, qInputs, qOpen,
                   qCalls>>

\* -------------------------------------------------- DynamoDBTestHelper --
\* JavaScript values, tagged with what typeof / Array.isArray / === null
\* tell about them.
Str(s) == [string |-> s]
Num(x) == [number |-> x]
Bool(b) == [boolean |-> b]
Null == [null |-> TRUE]
Undefined == [undefined |-> TRUE]
Fn == [function |-> TRUE]
Arr(s) == [array |-> s]
Obj(f) == [object |-> f]
EmptyObject == [k \in {} |-> Null]

TypeOf(v) == CHOOSE t \in DOMAIN v : TRUE

\* Object.entries(v): an array has the entries "0", "1", ... of its elements.
ObjectEntries(v) ==
    IF TypeOf(v) = "array"
    THEN [k \in {ToString(i - 1) : i \in 1..Len(v.array)} |->
             v.array[CHOOSE i \in 1..Len(v.array) : ToString(i - 1) = k]]
    ELSE v.object

\* Mutant: a number is written as a string attribute.
NumberAsString(x) == [S |-> ToString(x)]

\* { N: value.toString() }
NumberAttribute(x) == [N |-> ToString(x)]

RECURSIVE ToDynamoFormat(_)

\* The callback of value.map: an element of a list.
EncodeElement(v) ==
    CASE TypeOf(v) = "string" -> [S |-> v.string]
      [] TypeOf(v) = "number" -> NumberAttribute(v.number)
      [] TypeOf(v) = "boolean" -> [BOOL |-> v.boolean]
      [] TypeOf(v) \in {"array", "object"} -> [M |-> ToDynamoFormat(ObjectEntries(v))]
      [] OTHER -> [NULL |-> TRUE]

\* The types for which the loop body assigns result[key].
Assigned(v) ==
    TypeOf(v) \in {"string", "number", "boolean", "array", "object", "null", "undefined"}

\* The attribute the loop body assigns for a value of the record.
EncodeValue(v) ==
    CASE TypeOf(v) = "string" -> [S |-> v.string]
      [] TypeOf(v) = "number" -> NumberAttribute(v.number)
      [] TypeOf(v) = "boolean" -> [BOOL |-> v.boolean]
      [] TypeOf(v) = "array" ->
            [L |-> [i \in 1..Len(v.array) |-> EncodeElement(v.array[i])]]
      [] TypeOf(v) = "object" -> [M |-> ToDynamoFormat(v.object)]
      [] OTHER -> [NULL |-> TRUE]

\* static toDynamoFormat(data)
ToDynamoFormat(data) ==
    [k \in {key \in DOMAIN data : Assigned(data[key])} |-> EncodeValue(data[k])]

\* The values of the records the tests encode.
Scalars == {Str("1"), Num(1), Bool(TRUE), Null}
Lists == UNION {[1..n -> Scalars] : n \in 0..MaxListLen}
Values ==
    {Str("a"), Str("1"), Num(1), Num(42), Bool(TRUE), Bool(FALSE), Null, Undefined, Fn}
    \cup {Arr(l) : l \in Lists}
    \cup {Arr(<<Arr(<<Num(1)>>)>>), Arr(<<Obj([x |-> Num(1)])>>), Arr(<<Undefined>>)}
    \cup {Obj(EmptyObject), Obj([x |-> Arr(<<Str("1")>>)]), Obj([x |-> Undefined])}
    \cup {Obj([x |-> v]) : v \in Scalars}
Ids == {"demo1", "demo2"}
Records ==
    {[poc_id |-> Str(id)] : id \in Ids}
    \cup {[poc_id |-> Str(id), v |-> val] : id \in Ids, val \in Values}

\* The primary key of the table is the attribute poc_id.
KeyOf(item) == [k \in {"poc_id"} |-> item[k]]

\* What an earlier test run left in the table.
OldItem == ToDynamoFormat([poc_id |-> Str("demo1"), v |-> Str("old")])

\* const item = DynamoDBTestHelper.toDynamoFormat(record)
DynEncode ==
    /\ test = "dynamo"
    /\ dypc = "start"
    /\ dyItem' = ToDynamoFormat(dyRecord)
    /\ dypc' = "encoded"
    /\ UNCHANGED <<now, test, coreVars, lateVars, fileVars, dbVars, raceVars, dyRecord, dyKey, dyTable,
                   dyResult, dyError>>

\* putItem(tableName, item): send the PutItemCommand
DynPutCall ==
    /\ dypc = "encoded"
    /\ dypc' = "putting"
    /\ UNCHANGED <<now, test, coreVars, lateVars, fileVars, dbVars, raceVars, dyRecord, dyItem, dyKey,
                   dyTable, dyResult, dyError>>

\* The put resolves: the item replaces the one stored under its key.
DynPutOk ==
    /\ dypc = "putting"
    /\ dyTable' = (KeyOf(dyItem) :> dyItem) @@ dyTable
    /\ dypc' = "stored"
    /\ UNCHANGED <<now, test, coreVars, lateVars, fileVars, dbVars, raceVars, dyRecord, dyItem, dyKey,
                   dyResult, dyError>>

\* The put rejects.
DynPutFail ==
    /\ dypc = "putting"
    /\ dypc' = "error"
    /\ dyError' = TransportError
    /\ UNCHANGED <<now, test, coreVars, lateVars, fileVars, dbVars, raceVars, dyRecord, dyItem, dyKey,
                   dyTable, dyResult>>

\* const key = toDynamoFormat({poc_id: id}); getItem(tableName, key)
DynGetCall(id) ==
    /\ dypc = "stored"
    /\ dyKey' = ToDynamoFormat([poc_id |-> Str(id)])
    /\ dypc' = "getting"
    /\ UNCHANGED <<now, test, coreVars, lateVars, fileVars, dbVars, raceVars, dyRecord, dyItem, dyTable,
                   dyResult, dyError>>

\* The get resolves with the stored item, or without Item.
DynGetOk ==
    /\ dypc = "getting"
    /\ dyResult' = IF dyKey \in DOMAIN dyTable
                   THEN [Item |-> dyTable[dyKey]]
                   ELSE EmptyObject
    /\ dypc' = "read"
    /\ UNCHANGED <<now, test, coreVars, lateVars, fileVars, dbVars, raceVars, dyRecord, dyItem, dyKey,
                   dyTable, dyError>>

\* The get rejects.
DynGetFail ==
    /\ dypc = "getting"
    /\ dypc' = "error"
    /\ dyError' = TransportError
    /\ UNCHANGED <<now, test, coreVars, lateVars, fileVars, dbVars, raceVars, dyRecord, dyItem, dyKey,
                   dyTable, dyResult>>

\* ------------------------ a second testSingleMessage run on the queue --
\* await this.lambdaHelper.purgeQueue(this.config.queueUrl): first receive
RunStart ==
    /\ test = "race"
    /\ rpc = "idle"
    /\ MayStart(spc)
    /\ rpc' = "receive"
    /\ rWake' = now + WaitTimeMs
    /\ UNCHANGED <<now, test, coreVars, lateVars, fileVars, dbVars, dynVars, rMode, rBatch,
                   rStart, rMsg, rError, rStolen, rConsumed>>

\* The receive of purgeQueue resolves: delete the batch, or go on to send.
RunPurgeReceive ==
    /\ rpc = "receive"
    /\ Visible # {} \/ now = rWake
    /\ \E B \in ReceiveBatches(DefaultMaxMessages) :
        /\ queue' = TakeBatch(B, "harness")
        /\ rBatch' = SeqOf(B)
        /\ rpc' = IF PurgeAfterRead(Len(SeqOf(B))) = "delete" THEN "delete" ELSE "send"
    /\ UNCHANGED <<now, test, waitVars, logVars, suiteVars, purgeVars, s3Objects, dpc, dKey,
                   dError, lateVars, fileVars, dbVars, dynVars, rMode, rWake, rStart, rMsg,
                   rError, rStolen, rConsumed>>
    /\ History

\* A delete of purgeQueue resolves; after the last one the next receive is
\* issued.  The only message of the other run in the queue is its stimulus.
RunPurgeDelete ==
    /\ rpc = "delete"
    /\ queue' = [queue EXCEPT ![Head(rBatch)] = "purged"]
    /\ rBatch' = Tail(rBatch)
    /\ IF Tail(rBatch) = <<>>
       THEN rpc' = "receive" /\ rWake' = now + WaitTimeMs
       ELSE UNCHANGED <<rpc, rWake>>
    /\ rStolen' = IF spc = "wait" THEN rStolen \cup {Head(rBatch)} ELSE rStolen
    /\ UNCHANGED <<now, test, waitVars, logVars, suiteVars, purgeVars, s3Objects, dpc, dKey,
                   dError, lateVars, fileVars, dbVars, dynVars, rMode, rStart, rMsg, rError,
                   rConsumed>>
    /\ History

\* sendMessage resolves; waitForLambdaProcessing(queueUrl, 0, timeout) is
\* called and starts its initial delay.
RunSend(m) ==
    /\ rpc = "send"
    /\ queue[m] = "unsent"
    /\ queue' = [queue EXCEPT ![m] = "visible"]
    /\ rMsg' = m
    /\ rStart' = now
    /\ rWake' = InitialDelayDue(now)
    /\ rpc' = "delay"
    /\ UNCHANGED <<now, test, waitVars, logVars, suiteVars, purgeVars, s3Objects, dpc, dKey,
                   dError, lateVars, fileVars, dbVars, dynVars, rMode, rBatch, rError,
                   rStolen, rConsumed>>
    /\ History

\* The initial delay has elapsed.
RunDelayDone ==
    /\ rpc = "delay"
    /\ now = rWake
    /\ rpc' = "check"
    /\ UNCHANGED <<now, test, coreVars, lateVars, fileVars, dbVars, dynVars, rMode, rBatch,
                   rWake, rStart, rMsg, rError, rStolen, rConsumed>>

\* The loop condition of the wait: next receive, or the timeout error.
RunCheck ==
    /\ rpc = "check"
    /\ IF WithinDeadline(now, rStart, EffectiveTimeout(cfgTimeout))
       THEN rpc' = "reading" /\ rWake' = now + WaitTimeMs /\ UNCHANGED rError
       ELSE rpc' = "failed" /\ rError' = TimeoutError(0) /\ UNCHANGED rWake
    /\ UNCHANGED <<now, test, coreVars, lateVars, fileVars, dbVars, dynVars, rMode, rBatch,
                   rStart, rMsg, rStolen, rConsumed>>

\* The receive of the wait resolves: return on an empty read, else poll on.
RunWaitReceive ==
    /\ rpc = "reading"
    /\ Visible # {} \/ now = rWake
    /\ \E B \in ReceiveBatches(DefaultMaxMessages) :
        /\ queue' = TakeBatch(B, "harness")
        /\ rpc' = IF WaitAfterRead(CountMatches(Len(SeqOf(B)), 0)) = "satisfied"
                  THEN "done"
                  ELSE "check"
    /\ UNCHANGED <<now, test, waitVars, logVars, suiteVars, purgeVars, s3Objects, dpc, dKey,
                   dError, lateVars, fileVars, dbVars, dynVars, rMode, rBatch, rWake, rStart,
                   rMsg, rError, rStolen, rConsumed>>
    /\ History

\* A pending remote call of the run rejects: the run rejects.
RunRemoteFail ==
    /\ rpc \in {"receive", "delete", "send", "reading"}
    /\ rpc' = "failed"
    /\ rError' = TransportError
    /\ UNCHANGED <<now, test, coreVars, lateVars, fileVars, dbVars, dynVars, rMode, rBatch,
                   rWake, rStart, rMsg, rStolen, rConsumed>>

\* The Lambda event source receives a visible message (recorded).
ConsumerReceive(m) ==
    /\ test = "race"
    /\ QueueLive
    /\ queue[m] = "visible"
    /\ queue' = [queue EXCEPT ![m] = "lambda"]
    /\ rConsumed' = rConsumed \cup {m}
    /\ UNCHANGED <<now, test, waitVars, logVars, suiteVars, purgeVars, s3Objects, dpc, dKey,
                   dError, lateVars, fileVars, dbVars, dynVars, rMode, rpc, rBatch, rWake,
                   rStart, rMsg, rError, rStolen>>
    /\ History

\* -------------------------------------------------------------- clock --
\* Due times of the timers and remote calls the running calls are suspended on.
Timers ==
    (IF wpc \in {"delay", "reading"} THEN {wWake} ELSE {})
    \cup (IF lpc \in {"querying", "sleep"} THEN {lWake} ELSE {})
    \cup (IF ppc = "receive" THEN {pWake} ELSE {})
    \cup (IF spc \in {"sleep", "remaining"} THEN {sWake} ELSE {})
    \cup (IF fpc = "sleep" THEN {fWake} ELSE {})
    \cup (IF rpc \in {"receive", "delay", "reading"} THEN {rWake} ELSE {})

\* Some call can run now: code between awaits, a due timer, a receive that
\* has messages to return.
Runnable ==
    \/ wpc = "check"
    \/ lpc = "check"
    \/ wpc = "reading" /\ Visible # {}
    \/ ppc = "receive" /\ Visible # {}
    \/ ppc = "delete"
    \/ spc = "build"
    \/ spc = "remaining" /\ Visible # {}
    \/ fpc \in {"loop", "exists"}
    \/ rpc \in {"check", "delete"}
    \/ rpc \in {"receive", "reading"} /\ Visible # {}
    \/ \E t \in Timers : t <= now

\* Time passes while every running call is suspended.
Tick ==
    /\ Timers # {}
    /\ ~Runnable
    /\ LET next == CHOOSE t \in Timers : \A u \in Timers : t <= u
       IN now' = Min(now + TickMs, next)
    /\ UNCHANGED <<test, queue, waitVars, logVars, cleanVars>>
    /\ History

\* ------------------------------------------------------- specification --
InitQueue == queue = [m \in 1..MaxMsgs |-> "unsent"]

InitWait ==
    /\ wpc = "idle"
    /\ wStartTime = 0
    /\ wExpected = 0
    /\ wTimeoutMs = 0
    /\ wWake = 0
    /\ wLast = "none"
    /\ wCount = 0
    /\ wError = NoError
    /\ wSeenN = FALSE
    /\ wDrained = FALSE
    /\ wReadEnd = 0

InitLogs ==
    /\ logStore = <<>>
    /\ lpc = "idle"
    /\ lStartTime = 0
    /\ lCallTime = 0
    /\ lReadEnd = 0
    /\ lEndTime = 0
    /\ lWake = 0
    /\ lLast = "none"
    /\ lEvents = <<>>
    /\ lResult = <<>>
    /\ lError = NoError

InitFile ==
    /\ fileExists = FALSE
    /\ fpc = "idle"
    /\ fI = 0
    /\ fTimeoutMs = 0
    /\ fStart = 0
    /\ fWake = 0
    /\ fChecks = 0
    /\ fFound = FALSE
    /\ fExisted = FALSE
    /\ fEvents = 0

InitDb ==
    /\ qpc = "idle"
    /\ qParams = 0
    /\ qInputs = 0
    /\ qOpen = 0
    /\ qCalls = 0
    /\ qFailed = 0
    /\ qError = NoError

InitDyn ==
    /\ dypc = "start"
    /\ dyItem = EmptyObject
    /\ dyKey = EmptyObject
    /\ dyResult = EmptyObject
    /\ dyError = NoError

InitRun ==
    /\ rpc = "idle"
    /\ rBatch = <<>>
    /\ rWake = 0
    /\ rStart = 0
    /\ rMsg = 0
    /\ rError = NoError
    /\ rStolen = {}
    /\ rConsumed = {}

\* A test case that passes no messages, messageCount or expectDLQ.
InitNoInputs ==
    /\ sCount = 1
    /\ sConc = 1
    /\ sExpectDLQ = FALSE

InitClean ==
    /\ spc = "start"
    /\ sError = NoError
    /\ calls = <<>>
    /\ lI = 0
    /\ lBatchSize = 0
    /\ sIssued = 0
    /\ sSent = 0
    /\ sWake = 0
    /\ sRemaining = 0
    /\ ppc = "idle"
    /\ pBatch = <<>>
    /\ pWake = 0
    /\ pError = NoError
    /\ pCalls = 0
    /\ pReads = 0
    /\ pDeletes = 0
    /\ pEntries = 0
    /\ pRead = <<>>
    /\ pDone = <<>>
    /\ pQuiet = TRUE
    /\ pQueue0 = AtCall(queue)
    /\ s3Objects = {}
    /\ dpc = "idle"
    /\ dKey = "a.txt"
    /\ dError = NoError
    /\ sLate = 0
    /\ InitFile
    /\ InitDb
    /\ InitDyn
    /\ InitRun

\* A test case that calls one of the two pollers.
Init ==
    /\ now = 0
    /\ qHelper = "postgres"
    /\ dyRecord = [poc_id |-> Str("demo1")]
    /\ dyTable = EmptyObject
    /\ rMode = "serial"
    /\ test \in {"wait", "logs"}
    /\ cfgTimeout = 0
    /\ InitNoInputs
    /\ InitQueue
    /\ InitWait
    /\ InitLogs
    /\ InitClean

\* A test case that runs testSingleMessage, or one that cleans up its S3 object.
InitCleanup ==
    /\ now = 0
    /\ qHelper = "postgres"
    /\ dyRecord = [poc_id |-> Str("demo1")]
    /\ dyTable = EmptyObject
    /\ rMode = "serial"
    /\ test \in {"single", "s3"}
    /\ cfgTimeout \in ConfigTimeoutChoices
    /\ InitNoInputs
    /\ InitQueue
    /\ InitWait
    /\ InitLogs
    /\ InitClean

Next ==
    \/ \E m \in Msgs : SendMessage(m)
    \/ \E n \in ExpectedChoices, t \in TimeoutChoices : WaitCall(n, t)
    \/ WaitDelayDone
    \/ WaitCheck
    \/ WaitReceive
    \/ WaitReceiveFail
    \/ \E m \in Msgs : LambdaReceive(m)
    \/ \E m \in Msgs : LambdaDelete(m)
    \/ \E m \in Msgs : LambdaReturn(m)
    \/ \E m \in Msgs : VisibilityTimeout(m)
    \/ \E fs \in FilterStartChoices : LogCall(fs)
    \/ LogCheck
    \/ LogResponse
    \/ LogResponseFail
    \/ LogSleepDone
    \/ \E line \in LogLines : LogEmit(line)
    \/ Tick

Spec == Init /\ [][Next]_vars

NextCleanup ==
    \/ \E m \in Msgs : SendMessage(m)
    \/ SingleStart
    \/ PurgeReceive
    \/ PurgeReceiveFail
    \/ PurgeDelete
    \/ PurgeDeleteFail
    \/ SinglePurgeDone
    \/ SinglePurgeFailed
    \/ \E m \in Msgs : SingleSend(m)
    \/ SingleSendFail
    \/ \E n \in ExpectedChoices, t \in {EffectiveTimeout(c) : c \in ConfigTimeoutChoices} :
          WaitCall(n, t)
    \/ WaitDelayDone
    \/ WaitCheck
    \/ WaitReceive
    \/ WaitReceiveFail
    \/ SingleWaitDone
    \/ SingleWaitFailed
    \/ \E m \in Msgs : LambdaReceive(m)
    \/ \E m \in Msgs : LambdaDelete(m)
    \/ \E m \in Msgs : LambdaReturn(m)
    \/ \E m \in Msgs : VisibilityTimeout(m)
    \/ \E key \in S3Keys : S3Upload(key)
    \/ \E key \in S3Keys : S3DeleteCall(key)
    \/ S3DeleteOk
    \/ S3DeleteFail
    \/ Tick

SpecCleanup == InitCleanup /\ [][NextCleanup]_vars

\* A test case that purges a queue other clients use.
InitPurge ==
    /\ now = 0
    /\ qHelper = "postgres"
    /\ dyRecord = [poc_id |-> Str("demo1")]
    /\ dyTable = EmptyObject
    /\ rMode = "serial"
    /\ test = "purge"
    /\ cfgTimeout = 0
    /\ InitNoInputs
    /\ InitQueue
    /\ InitWait
    /\ InitLogs
    /\ InitClean

\* A remote call that was issued settles.
PurgeReceiveSettles == PurgeReceive \/ PurgeReceiveFail
PurgeDeleteSettles == PurgeDelete \/ PurgeDeleteFail

NextPurge ==
    \/ \E m \in Msgs : ProducerSend(m)
    \/ PurgeTest
    \/ PurgeReceive
    \/ PurgeReceiveFail
    \/ PurgeDelete
    \/ PurgeDeleteFail
    \/ \E m \in Msgs : LambdaReceive(m)
    \/ \E m \in Msgs : LambdaDelete(m)
    \/ \E m \in Msgs : LambdaReturn(m)
    \/ Tick

\* Every remote call settles and time passes; nothing obliges the other
\* clients of the queue to act or to stop.  The deletes of a batch follow its
\* receive at once, long before the visibility timeout of its messages.
SpecPurge ==
    /\ InitPurge
    /\ [][NextPurge]_vars
    /\ WF_vars(PurgeReceiveSettles)
    /\ WF_vars(PurgeDeleteSettles)
    /\ WF_vars(Tick)

\* A test case that runs one scenario of LambdaTestSuite.  The queue has room
\* for the messages of the scenario and, where the bound allows, for one
\* message an earlier test left behind.
InitSuite ==
    /\ now = 0
    /\ qHelper = "postgres"
    /\ dyRecord = [poc_id |-> Str("demo1")]
    /\ dyTable = EmptyObject
    /\ rMode = "serial"
    /\ test \in {"single", "batch", "error", "load"}
    /\ \/ /\ test = "single"
          /\ cfgTimeout \in ConfigTimeoutChoices
          /\ InitNoInputs
          /\ InitQueue
       \/ /\ test = "batch"
          /\ cfgTimeout \in BatchTimeoutChoices
          /\ sCount \in 0..MaxMsgs
          /\ sConc = 1
          /\ sExpectDLQ = FALSE
          /\ queue = [m \in 1..(sCount + 1) |-> "unsent"]
       \/ /\ test = "error"
          /\ cfgTimeout = 0
          /\ sCount = 1
          /\ sConc = 1
          /\ sExpectDLQ \in BOOLEAN
          /\ queue = [m \in 1..2 |-> "unsent"]
       \/ /\ test = "load"
          /\ cfgTimeout \in LoadTimeoutChoices
          /\ sCount \in 0..MaxLoadCount
          /\ sConc \in 1..MaxConcurrency
          /\ sExpectDLQ = FALSE
          /\ queue = [m \in 1..Min(sCount + 1, MaxLoadCount) |-> "unsent"]
    /\ InitWait
    /\ InitLogs
    /\ InitClean

NextSuite ==
    \/ \E m \in Msgs : SendMessage(m)
    \/ SingleStart
    \/ \E t \in {"batch", "error", "load"} : SuiteStart(t)
    \/ PurgeReceive
    \/ PurgeReceiveFail
    \/ PurgeDelete
    \/ PurgeDeleteFail
    \/ SinglePurgeDone
    \/ SinglePurgeFailed
    \/ SuitePurgeFailed
    \/ \E m \in Msgs : SingleSend(m)
    \/ SingleSendFail
    \/ BatchPurgeDone
    \/ BatchSendsDone
    \/ LoadPurgeDone
    \/ LoadLoop
    \/ LoadSendsDone
    \/ \E k \in 1..Len(calls) : SendSettle(k)
    \/ \E k \in 1..Len(calls) : SendFail(k)
    \/ SuiteSendsFailed
    \/ ErrorPurgeDone
    \/ ErrorSend
    \/ ErrorSendFail
    \/ ErrorSleepDone
    \/ ErrorReceive
    \/ ErrorReceiveFail
    \/ \E n \in ExpectedChoices,
          t \in {EffectiveTimeout(c) : c \in ConfigTimeoutChoices}
                \cup {LoadEffectiveTimeout(c) : c \in LoadTimeoutChoices} :
          WaitCall(n, t)
    \/ WaitDelayDone
    \/ WaitCheck
    \/ WaitReceive
    \/ WaitReceiveFail
    \/ SingleWaitDone
    \/ SingleWaitFailed
    \/ SuiteWaitDone
    \/ SuiteWaitFailed
    \/ \E m \in Msgs : LambdaReceive(m)
    \/ \E m \in Msgs : LambdaDelete(m)
    \/ \E m \in Msgs : LambdaReturn(m)
    \/ \E m \in Msgs : VisibilityTimeout(m)
    \/ Tick

SpecSuite == InitSuite /\ [][NextSuite]_vars

\* A test case that waits until it reads exactly as many messages as the
\* queue holds; no consumer is attached to the queue, and the visibility
\* timeout of the queue is longer than the wait.
InitCount ==
    /\ now = 0
    /\ qHelper = "postgres"
    /\ dyRecord = [poc_id |-> Str("demo1")]
    /\ dyTable = EmptyObject
    /\ rMode = "serial"
    /\ test = "count"
    /\ cfgTimeout = 0
    /\ InitNoInputs
    /\ queue \in {[m \in 1..k |-> "visible"] : k \in 0..MaxQueued}
    /\ InitWait
    /\ InitLogs
    /\ InitClean

NextCount ==
    \/ \E t \in CountTimeoutChoices : WaitCall(Cardinality(Msgs), t)
    \/ WaitDelayDone
    \/ WaitCheck
    \/ WaitReceive
    \/ WaitReceiveFail
    \/ Tick

SpecCount == InitCount /\ [][NextCount]_vars

\* A test case that waits for a file another program writes.
InitWaitForFile ==
    /\ now = 0
    /\ qHelper = "postgres"
    /\ dyRecord = [poc_id |-> Str("demo1")]
    /\ dyTable = EmptyObject
    /\ rMode = "serial"
    /\ test = "file"
    /\ cfgTimeout = 0
    /\ InitNoInputs
    /\ InitQueue
    /\ InitWait
    /\ InitLogs
    /\ InitClean

NextWaitForFile ==
    \/ \E t \in FileTimeoutChoices : FileCall(t)
    \/ FileLoop
    \/ FileChecked
    \/ FileSleepDone
    \/ FileCreate
    \/ FileRemove
    \/ Tick

SpecWaitForFile == InitWaitForFile /\ [][NextWaitForFile]_vars

\* A test case that queries a database through one of the two helpers.
InitQuery ==
    /\ now = 0
    /\ test = "db"
    /\ qHelper \in Helpers
    /\ dyRecord = [poc_id |-> Str("demo1")]
    /\ dyTable = EmptyObject
    /\ rMode = "serial"
    /\ cfgTimeout = 0
    /\ InitNoInputs
    /\ InitQueue
    /\ InitWait
    /\ InitLogs
    /\ InitClean

NextQuery ==
    \/ \E n \in 0..MaxParams : QueryCall(n)
    \/ QueryConnected
    \/ QueryConnectFail
    \/ QueryInput
    \/ QueryStatementOk
    \/ QueryStatementFail
    \/ QueryClosed
    \/ QueryCloseFail

SpecQuery == InitQuery /\ [][NextQuery]_vars

\* A test case that encodes a record, writes it and reads it back.
InitDynamo ==
    /\ now = 0
    /\ test = "dynamo"
    /\ qHelper = "postgres"
    /\ dyRecord \in Records
    /\ dyTable \in {EmptyObject, KeyOf(OldItem) :> OldItem}
    /\ rMode = "serial"
    /\ cfgTimeout = 0
    /\ InitNoInputs
    /\ InitQueue
    /\ InitWait
    /\ InitLogs
    /\ InitClean

NextDynamo ==
    \/ DynEncode
    \/ DynPutCall
    \/ DynPutOk
    \/ DynPutFail
    \/ \E id \in Ids : DynGetCall(id)
    \/ DynGetOk
    \/ DynGetFail

SpecDynamo == InitDynamo /\ [][NextDynamo]_vars

\* Two testSingleMessage runs on the same queue, awaited one after the other
\* or started together; each sends one message.  The consumer processes what
\* it receives, and the visibility timeout is longer than the runs.
RaceTimeoutChoices == {10500}

InitRace ==
    /\ now = 0
    /\ test = "race"
    /\ rMode \in {"serial", "concurrent"}
    /\ qHelper = "postgres"
    /\ dyRecord = [poc_id |-> Str("demo1")]
    /\ dyTable = EmptyObject
    /\ cfgTimeout \in RaceTimeoutChoices
    /\ InitNoInputs
    /\ queue = [m \in {1, 2} |-> "unsent"]
    /\ InitWait
    /\ InitLogs
    /\ InitClean

NextRace ==
    \/ SingleStart
    \/ PurgeReceive
    \/ PurgeReceiveFail
    \/ PurgeDelete
    \/ PurgeDeleteFail
    \/ SinglePurgeDone
    \/ SinglePurgeFailed
    \/ \E m \in Msgs : SingleSend(m)
    \/ SingleSendFail
    \/ \E t \in {EffectiveTimeout(c) : c \in RaceTimeoutChoices} : WaitCall(0, t)
    \/ WaitDelayDone
    \/ WaitCheck
    \/ WaitReceive
    \/ WaitReceiveFail
    \/ SingleWaitDone
    \/ SingleWaitFailed
    \/ RunStart
    \/ RunPurgeReceive
    \/ RunPurgeDelete
    \/ \E m \in Msgs : RunSend(m)
    \/ RunDelayDone
    \/ RunCheck
    \/ RunWaitReceive
    \/ RunRemoteFail
    \/ \E m \in Msgs : ConsumerReceive(m)
    \/ \E m \in Msgs : LambdaDelete(m)
    \/ Tick

SpecRace == InitRace /\ [][NextRace]_vars

\* ================================================================ claims ==
WaitDone == {"satisfied", "timeout", "error"}
LogDone == {"satisfied", "empty", "error"}
Elapsed == now - wStartTime

\* The matching entries of the store that arrived after getLogEvents was
\* called and inside [startTime, startTime + timeout].
ArrivedInWindow ==
    {i \in 1..Len(logStore) :
        /\ logStore[i].message = FilterPattern
        /\ logStore[i].timestamp > lCallTime
        /\ lStartTime <= logStore[i].timestamp
        /\ logStore[i].timestamp <= lStartTime + LogTimeoutMs}

\* C1 (as stated): if the queue holds exactly n visible messages at some
\* moment between the call's start and its deadline, and no receive fails,
\* the call returns normally, and it returns with elapsed time <= timeoutMs.
C1_Original ==
    /\ (wpc \in {"satisfied", "timeout"} /\ wSeenN) => wpc = "satisfied"
    /\ wpc = "satisfied" => Elapsed <= wTimeoutMs

\* C1 (amended): the call returns normally exactly when one of its receives
\* returns exactly n messages; that receive was issued at elapsed time
\* < timeoutMs, so the call returns before timeoutMs plus the duration of
\* that one receive (at most the long-poll wait).
C1_ReturnsOnMatchingRead ==
    /\ wpc = "satisfied" <=> (wLast = "ok" /\ wCount = wExpected)
    /\ wpc = "satisfied" =>
          /\ (wWake - WaitTimeMs) - wStartTime < wTimeoutMs
          /\ Elapsed < wTimeoutMs + WaitTimeMs

\* C1 witness: a call that returned normally after its deadline had passed.
C1_Witness == wpc = "satisfied" /\ Elapsed > wTimeoutMs /\ wSeenN

\* C2 (as stated): for every timeoutMs > 0, a call that times out has blocked
\* its caller for at most timeoutMs plus one poll interval (one receive).
C2_Original == wpc = "timeout" => Elapsed <= wTimeoutMs + WaitTimeMs

\* C3 (as stated): getLogEvents polls for 30 s measured from its own call:
\* it does not return the empty result earlier, and it sends no query later.
C3_Original ==
    /\ lpc = "empty" => now - lCallTime >= LogTimeoutMs
    /\ lpc = "querying" => lEndTime - lCallTime < LogTimeoutMs

\* C4 (as stated): a matching entry that becomes visible during the call, at a
\* time t in [startTime, startTime + timeout], is returned, within one poll
\* interval (one sleep plus one query) after t; the call never returns the
\* empty result while such an entry is in the store.
C4_Original ==
    /\ lpc = "empty" => ArrivedInWindow = {}
    /\ \A i \in ArrivedInWindow :
          lpc \in {"check", "querying", "sleep"} =>
              now <= logStore[i].timestamp + SleepMs + MaxLatencyTicks * TickMs

\* C5: when no query fails and none returns an entry, getLogEvents ends by
\* returning the empty sequence, once the clock has reached startTime + 30 s,
\* and it rejects only when a query failed.
C5_SoftTimeout ==
    /\ lpc = "empty" =>
          /\ lResult = <<>>
          /\ lError = NoError
          /\ now - lStartTime >= LogTimeoutMs
    /\ (lpc \in LogDone /\ lLast # "failed" /\ lEvents = <<>>) => lpc = "empty"
    /\ lpc = "error" => lLast = "failed"

\* C5 witness: the call returned the empty sequence after it had polled.
C5_Witness == lpc = "empty" /\ lLast = "ok" /\ lResult = <<>>

\* C6 (as stated): the timeout error carries the expected count and the count
\* observed by the last receive.
C6_Original ==
    wpc = "timeout" =>
        /\ "expected" \in DOMAIN wError
        /\ "observed" \in DOMAIN wError
        /\ wError.expected = wExpected
        /\ wError.observed = wCount

\* C6 (amended): the timeout error carries the expected count and nothing
\* else; the count of the last receive is not reported.
C6_TimeoutCarriesExpectedOnly ==
    wpc = "timeout" => wError = [kind |-> "Timeout", expected |-> wExpected]

\* C6 witness: a timeout after a receive that returned another count.
C6_Witness == wpc = "timeout" /\ wLast = "ok" /\ wCount # wExpected /\ wCount > 0

\* C7: in both pollers a failed remote read ends the call with that error: no
\* further read is issued, and the call does not end Satisfied, timed out or
\* with an empty result; a call rejects with a transport error only so.
C7_ReadFailurePropagates ==
    /\ wLast = "failed" => wpc = "error" /\ wError = TransportError
    /\ lLast = "failed" => lpc = "error" /\ lError = TransportError
    /\ wpc = "error" => wLast = "failed"
    /\ lpc = "error" => lLast = "failed"

\* C7 witness: the queue poller rejected after a receive failed.
C7_Witness == wpc = "error" /\ wLast = "failed" /\ wError = TransportError

\* C8 (as stated): a failed remote call never makes purgeQueue or
\* deleteS3Object reject, and never makes the scenario fail.
C8_Original ==
    /\ ppc # "error"
    /\ dpc # "error"
    /\ ~(spc = "failed" /\ ppc = "error")

\* C8 (amended): a failed remote call inside purgeQueue or deleteS3Object
\* rejects the cleanup call with that error; testSingleMessage then rejects
\* with the same error and neither sends its message nor waits.
C8_CleanupFailurePropagates ==
    /\ pError = TransportError => ppc = "error"
    /\ dError = TransportError => dpc = "error"
    /\ ppc = "error" =>
          /\ pError = TransportError
          /\ spc \in {"purge", "failed"}
          /\ wpc = "idle"
          /\ spc = "failed" => sError = pError
    /\ dpc = "error" => dError = TransportError

\* C8 witness: the scenario failed with the error of its purge.
C8_Witness == spc = "failed" /\ ppc = "error" /\ sError = TransportError

\* C9: each poller moves Start -> Polling -> {Satisfied | TimedOut | error}:
\* only Polling repeats, every iteration evaluates the loop condition once
\* and issues one read, nothing happens after a terminal state, and the
\* outcome of a call is one of the three.
WaitEdges ==
    {<<"idle", "delay">>, <<"delay", "check">>, <<"check", "reading">>,
     <<"check", "timeout">>, <<"reading", "check">>, <<"reading", "satisfied">>,
     <<"reading", "error">>}
LogEdges ==
    {<<"idle", "check">>, <<"check", "querying">>, <<"check", "empty">>,
     <<"querying", "sleep">>, <<"querying", "satisfied">>, <<"querying", "error">>,
     <<"sleep", "check">>}
C9_Step ==
    /\ wpc' # wpc => <<wpc, wpc'>> \in WaitEdges
    /\ lpc' # lpc => <<lpc, lpc'>> \in LogEdges
    /\ wpc' = wpc => wLast' = wLast /\ wCount' = wCount /\ wError' = wError
    /\ lpc' = lpc => lLast' = lLast /\ lEvents' = lEvents /\ lResult' = lResult
    /\ wpc' = "satisfied" => wError' = NoError
    /\ wpc' = "timeout" => wError'.kind = "Timeout"
    /\ lpc' \in {"satisfied", "empty"} => lError' = NoError
    /\ lpc' = "satisfied" <=> lResult' # <<>>
C9_StateMachine == [][C9_Step]_vars

\* C9 witness: the log poller ended Satisfied after more than one iteration.
C9_Witness ==
    lpc = "satisfied" /\ now - lCallTime > SleepMs + MaxLatencyTicks * TickMs

\* C10 (as stated): when the consumer has processed every one of the k >= 1
\* sent messages before the deadline, and no receive fails, a wait expecting 0
\* does not time out.
C10_Original == (wpc = "timeout" /\ wExpected = 0) => ~wDrained


\* C15: waitForLambdaProcessing issues no receive before its initial delay of
\* 10000 ms, counted from the call's start, has elapsed: while the delay runs
\* no receive has been issued, and every receive is issued and settles at an
\* elapsed time of at least 10000 ms.
C15_NoReadBeforeInitialDelay ==
    /\ wpc = "delay" => wLast = "none" /\ now <= wStartTime + InitialDelayMs
    /\ wpc = "reading" => (wWake - WaitTimeMs) - wStartTime >= InitialDelayMs
    /\ wLast # "none" => wReadEnd - wStartTime >= InitialDelayMs

\* C15 witness: the first receive of a call is under way, issued at the
\* moment the initial delay elapsed.
C15_Witness ==
    /\ wpc = "reading"
    /\ wLast = "none"
    /\ (wWake - WaitTimeMs) - wStartTime = InitialDelayMs

\* C16 (as stated): in both pollers, after a read that did not end the call
\* the next read starts no earlier than the fixed interval (1 s) after that
\* read completed.
C16_Original ==
    /\ (wpc = "reading" /\ wLast = "ok") => (wWake - WaitTimeMs) - wReadEnd >= SleepMs
    /\ (lpc = "querying" /\ lLast = "ok") => lEndTime - lReadEnd >= SleepMs

NoVisibleAtCall == pQueue0.visible = {}
EmptyAtCall == pQueue0.visible = {} /\ pQueue0.inflight = {}
PurgedNow == {m \in Msgs : queue[m] = "purged"}
PurgedAtCall == pQueue0.purged

\* C12 (as stated): with no send since the call started, purgeQueue called on
\* a queue with no visible message does one receive and no delete, and a
\* second call in a row does no delete and leaves the queue as the first did.
C12_Original ==
    /\ (ppc = "done" /\ pQuiet /\ NoVisibleAtCall) => pReads = 1 /\ pDeletes = 0
    /\ (ppc = "done" /\ pQuiet /\ pCalls = 2) =>
          pDeletes = 0 /\ PurgedNow = PurgedAtCall

\* C12 (amended): purgeQueue called on a queue that holds no message, visible
\* or in flight, and to which nobody sends during the call, does exactly one
\* receive and no delete, and returns with the queue unchanged; this holds in
\* particular for a second call in a row after a call that left it so.
C12_IdempotentOnEmptyQueue ==
    (ppc = "done" /\ pQuiet /\ EmptyAtCall) =>
        /\ pReads = 1
        /\ pDeletes = 0
        /\ pEntries = 0
        /\ AtCall(queue) = pQueue0

\* C12 witness: a second call in a row returned from the queue that the
\* first call had emptied by deleting a message.
C12_Witness ==
    /\ ppc = "done"
    /\ pCalls = 2
    /\ pQuiet
    /\ EmptyAtCall
    /\ PurgedNow # {}
    /\ pReads = 1

\* C13 (as stated): whatever the other clients of the queue do, a purgeQueue
\* call that is running eventually returns or rejects.
C13_Original == (ppc \in {"receive", "delete"}) ~> (ppc \in {"done", "error"})

\* C14: during purgeQueue the messages of a receive are deleted one by one in
\* the order returned, each once, all of them before the next receive is
\* issued; deletes and received messages are equal in number; the call
\* returns only after a receive that returned nothing.
C14_DeletesEachEntryInOrder ==
    /\ pDone \o pBatch = pRead
    /\ \A i, j \in 1..Len(pRead) : pRead[i] = pRead[j] => i = j
    /\ ppc = "receive" => pBatch = <<>>
    /\ ppc = "delete" => pBatch # <<>>
    /\ ppc = "done" => pRead = <<>> /\ pBatch = <<>> /\ (pCalls > 0 => pReads >= 1)
    /\ pEntries < MaxCounted => pDeletes + Len(pBatch) = pEntries

\* C14 witness: a call returned after two rounds of receive and delete.
C14_Witness ==
    /\ ppc = "done"
    /\ pReads = 3
    /\ pDeletes = 2
    /\ pEntries = 2

\* The number of sends a scenario makes when nothing fails.
TotalSends == IF test \in {"batch", "load"} THEN sCount ELSE 1
\* The messages of the first k sendMessages calls, in order of call and index.
RECURSIVE GroupsUpTo(_)
GroupsUpTo(k) == IF k = 0 THEN <<>> ELSE GroupsUpTo(k - 1) \o calls[k].msgs
\* The sends the first k calls have issued / have seen resolve.
RECURSIVE IssuedUpTo(_)
IssuedUpTo(k) ==
    IF k = 0 THEN 0
    ELSE IssuedUpTo(k - 1) + calls[k].sent
         + (IF calls[k].pc \in {"sending", "failed"} THEN 1 ELSE 0)
RECURSIVE SentUpTo(_)
SentUpTo(k) == IF k = 0 THEN 0 ELSE SentUpTo(k - 1) + calls[k].sent
\* testLoadPerformance has left its batching loop.
LoadBuilt == test = "load" /\ ppc = "done" /\ spc \in {"send", "wait", "done", "failed"}

\* C11: in every scenario a send is issued only after purgeQueue has returned
\* (its last receive returned nothing and nothing received is left undeleted),
\* and the queue-drain wait, or the remaining-messages read, starts only
\* after every send of the scenario has been issued and has resolved.
C11_ScenarioStepsOrdered ==
    /\ sIssued > 0 =>
          /\ ppc = "done"
          /\ pRead = <<>>
          /\ pBatch = <<>>
          /\ pCalls = 1
    /\ spc \in {"start", "purge"} => sIssued = 0 /\ calls = <<>>
    /\ (wpc # "idle" \/ spc \in {"wait", "remaining"}) =>
          /\ sIssued = TotalSends
          /\ sSent = TotalSends
          /\ \A k \in 1..Len(calls) : calls[k].pc = "done"
    /\ wpc # "idle" => test \in {"single", "batch", "load"}
    /\ spc \in {"sleep", "remaining"} => test = "error"

\* C11 witness: the load scenario waits for the queue to drain after its
\* purge deleted a message and its two sendMessages calls sent three.
C11_Witness ==
    /\ test = "load"
    /\ wpc = "delay"
    /\ sCount = 3
    /\ Len(calls) = 2
    /\ sSent = 3
    /\ \E m \in Msgs : queue[m] = "purged"

\* C18: a sendMessages call sends its messages one at a time in input order:
\* its ids are those of the messages sent so far, in order; a message is in
\* the queue once its send resolved and not before the sends of all messages
\* ahead of it resolved; a call that returned sent every message and returns
\* as many ids; a call that failed sent nothing after the failed send; the
\* call issues one send per message.
C18_SendMessagesSequential ==
    /\ \A k \in 1..Len(calls) :
          LET call == calls[k]
          IN /\ call.sent <= Len(call.msgs)
             /\ call.ids = [i \in 1..call.sent |-> call.msgs[i]]
             /\ \A i \in 1..Len(call.msgs) :
                   (i <= call.sent) <=> (queue[call.msgs[i]] # "unsent")
             /\ call.pc = "done" <=> call.sent = Len(call.msgs)
             /\ call.pc = "done" => Len(call.ids) = Len(call.msgs)
             /\ call.pc = "failed" => call.sent < Len(call.msgs)
    /\ test \in {"batch", "load"} =>
          /\ sIssued = IssuedUpTo(Len(calls))
          /\ sSent = SentUpTo(Len(calls))
    /\ (test = "batch" /\ calls # <<>> /\ calls[1].pc = "failed") =>
          spc \in {"send", "failed"} /\ wpc = "idle"

\* C18 witness: one call returned two ids, another failed at its second send.
C18_Witness ==
    \E j, k \in 1..Len(calls) :
        /\ calls[j].pc = "done"
        /\ Len(calls[j].ids) = 2
        /\ calls[k].pc = "failed"
        /\ calls[k].sent = 1

\* C19: testLoadPerformance cuts the generated messages 1..messageCount into
\* consecutive non-empty groups of at most ceil(messageCount/concurrencyLevel)
\* messages, every message in exactly one group; the loop advances in every
\* iteration and ends (at once for messageCount = 0); within a group the
\* sends follow the index order; when all sends resolved every message has
\* been sent exactly once.
C19_LoadPartition ==
    test = "load" =>
        /\ spc = "build" =>
              /\ lI < sCount => lBatchSize >= 1
              /\ lI = Len(calls) * lBatchSize
        /\ (spc = "build" \/ LoadBuilt) =>
              /\ lBatchSize * sConc >= sCount
              /\ sCount > 0 => (lBatchSize - 1) * sConc < sCount
              /\ sCount = 0 => lBatchSize = 0 /\ calls = <<>>
              /\ GroupsUpTo(Len(calls)) = [i \in 1..Min(lI, sCount) |-> i]
              /\ \A k \in 1..Len(calls) :
                    /\ Len(calls[k].msgs) >= 1
                    /\ Len(calls[k].msgs) <= lBatchSize
                    /\ \A i \in 1..Len(calls[k].msgs) :
                          i > calls[k].sent + 1 => queue[calls[k].msgs[i]] = "unsent"
              /\ Len(calls) <= sCount
              /\ sSent <= sCount
        /\ LoadBuilt => lI >= sCount
        /\ spc \in {"wait", "done"} =>
              /\ sSent = sCount
              /\ \A m \in 1..sCount : queue[m] # "unsent"

\* C19 witness: four messages at concurrency level three, all sent.
C19_Witness ==
    /\ test = "load"
    /\ spc = "wait"
    /\ sCount = 4
    /\ sConc = 3
    /\ sSent = 4
    /\ lBatchSize = 2

\* C20 (as stated): for messageCount >= concurrencyLevel >= 1 the number of
\* groups testLoadPerformance submits equals concurrencyLevel.
C20_Original ==
    (LoadBuilt /\ sCount >= sConc /\ sConc >= 1) => Len(calls) = sConc

\* A step of one of the two pollers.
PollerStep == wpc' # wpc \/ lpc' # lpc

\* C24 (as stated): both pollers are read-only.  No step of getLogEvents or
\* waitForLambdaProcessing changes the queue or the log store; getLogEvents
\* keeps filter.startTime as the lower bound of every query and takes the
\* current time as the upper bound, so the upper bounds never decrease.
C24_Step ==
    /\ PollerStep => (queue' = queue /\ logStore' = logStore)
    /\ lpc # "idle" => lStartTime' = lStartTime
    /\ (lpc' = "querying" /\ lpc # "querying") =>
          (lEndTime' = now' /\ lEndTime' >= lEndTime)
C24_Original == [][C24_Step]_vars

\* The messages some client has received and not yet deleted.
InFlight == {m \in Msgs : queue[m] \in {"lambda", "harness"}}

\* C25: waitForLambdaProcessing decides on the size of one read alone.  A read
\* whose count differs from the expected one is never an error: the call polls
\* on (or runs into its timeout); only a rejected receive produces a transport
\* error.  With expected count 0 the call returns at the first read that
\* returns no entries, whatever is in flight.
C25_DecidesOnReadSize ==
    /\ (wLast = "ok" /\ wCount # wExpected) =>
          /\ wpc \in {"check", "reading", "timeout"}
          /\ wError \in {NoError, TimeoutError(wExpected)}
    /\ (wpc = "satisfied" /\ wExpected = 0) => (wLast = "ok" /\ wCount = 0)
    /\ wError = TransportError => wLast = "failed"

\* C25 witness: the call returned for expected count 0 while one message was
\* held by the consumer and another by the poller's own earlier read, neither
\* processed.
C25_Witness ==
    /\ wpc = "satisfied"
    /\ wExpected = 0
    /\ \E m \in Msgs : queue[m] = "lambda"
    /\ \E m \in Msgs : queue[m] = "harness"
    /\ Processed = {}
    /\ ~wDrained

\* C27 (as stated): a getLogEvents call that returns the empty result has
\* had at least one query answered, whatever filter.startTime it was given.
C27_Original == lpc = "empty" => lLast # "none"

\* C29: in testLoadPerformance a rejected send stops its own group only.  The
\* messages after the rejected one stay unsent in that group, the scenario
\* rejects with the error of a send, the queue-drain wait is never started,
\* and sends that resolve after the scenario has rejected belong to the other
\* groups of a load scenario.
C29_FailedGroupStopsAlone ==
    /\ test = "load" =>
          /\ AnyRejected(calls) => (wpc = "idle" /\ spc \in {"send", "failed"})
          /\ (spc = "failed" /\ AnyRejected(calls)) => sError = TransportError
          /\ \A k \in 1..Len(calls) :
                calls[k].pc = "failed" =>
                    \A i \in 1..Len(calls[k].msgs) :
                        i > calls[k].sent => queue[calls[k].msgs[i]] = "unsent"
    /\ sLate > 0 =>
          /\ test = "load"
          /\ spc = "failed"
          /\ AnyRejected(calls)
          /\ sLate <= sSent

\* C29 witness: the first group failed at its first send and the scenario
\* rejected; afterwards the second group sent both of its messages, which sit
\* in the queue of a scenario that has already returned its error.
C29_Witness ==
    /\ test = "load"
    /\ spc = "failed"
    /\ sError = TransportError
    /\ Len(calls) = 2
    /\ calls[1].pc = "failed"
    /\ calls[1].sent = 0
    /\ calls[2].pc = "done"
    /\ sLate = 2
    /\ wpc = "idle"
    /\ \A m \in {3, 4} : queue[m] = "visible"

\* C28 (as stated): for every expected count n >= 0, a call that waits for n
\* messages on a queue that holds n messages and has no other client does not
\* run into its timeout.
C28_Original == (test = "count" /\ wExpected = Cardinality(Msgs)) => wpc # "timeout"

\* C26 (as stated): waitForFile returns true if the file exists at any moment
\* within timeoutMs of the call and false otherwise; it makes at most
\* ceil(timeoutMs / 500) checks and returns false only after the whole
\* timeout has passed.
C26_Original ==
    /\ fpc = "true" => fExisted
    /\ fpc = "false" => ~fExisted
    /\ fChecks <= Ceil(fTimeoutMs, PollIntervalMs)
    /\ fpc = "false" => now - fStart >= fTimeoutMs

\* C26 (amended): waitForFile returns true exactly when one of its checks
\* finds the file.  Check k is made (k - 1) * 500 ms after the call, for
\* (k - 1) * 500 < timeoutMs, so there are at most ceil(timeoutMs / 500)
\* checks; the call returns true at the first check that finds the file and
\* false 500 ms after the last check, when the whole timeout has passed,
\* without checking again: a file that appears after the last check, or that
\* exists only between two checks, is not seen.
C26_ReturnsAtFirstFindingCheck ==
    /\ fpc = "true" <=> fFound
    /\ fpc = "true" => (fileExists /\ fExisted)
    /\ fChecks <= Ceil(fTimeoutMs, PollIntervalMs)
    /\ fpc = "exists" => (fChecks = fI /\ now = fStart + fI * PollIntervalMs)
    /\ fpc = "true" => now = fStart + (fChecks - 1) * PollIntervalMs
    /\ fpc = "false" =>
          /\ fChecks = Ceil(fTimeoutMs, PollIntervalMs)
          /\ now = fStart + fChecks * PollIntervalMs
          /\ now - fStart >= fTimeoutMs

\* C26 witness: a call with a timeout of 1000 ms returned false although the
\* file appeared during the final wait and still exists.
C26_Witness ==
    /\ fpc = "false"
    /\ fTimeoutMs = 1000
    /\ fChecks = 2
    /\ fileExists
    /\ fExisted

\* C30 (as stated): query closes the connection it opened before the call
\* completes, on every path: whenever no query call is running, no connection
\* the helper opened is open.
C30_Original == qpc \in {"idle", "done", "failed"} => qOpen = 0

\* The encoding the claim describes: every value by its runtime type, lists
\* element by element with the same rules, records as maps.
RECURSIVE ClaimedAttribute(_)
ClaimedAttribute(v) ==
    CASE TypeOf(v) = "string" -> [S |-> v.string]
      [] TypeOf(v) = "number" -> [N |-> ToString(v.number)]
      [] TypeOf(v) = "boolean" -> [BOOL |-> v.boolean]
      [] TypeOf(v) = "array" ->
            [L |-> [i \in 1..Len(v.array) |-> ClaimedAttribute(v.array[i])]]
      [] TypeOf(v) = "object" ->
            [M |-> [k \in DOMAIN v.object |-> ClaimedAttribute(v.object[k])]]
      [] OTHER -> [NULL |-> TRUE]

\* The values the claim speaks about: the listed types at every level.
RECURSIVE Covered(_)
Covered(v) ==
    /\ TypeOf(v) \in {"string", "number", "boolean", "array", "object", "null", "undefined"}
    /\ TypeOf(v) = "array" => \A i \in 1..Len(v.array) : Covered(v.array[i])
    /\ TypeOf(v) = "object" => \A k \in DOMAIN v.object : Covered(v.object[k])

\* C22 (as stated): toDynamoFormat encodes every attribute by its runtime
\* type (string S, number N, boolean BOOL, list L with element-wise recursion,
\* record M, null/undefined NULL) and the output has the key set of the input.
C22_Original ==
    (dypc # "start" /\ \A k \in DOMAIN dyRecord : Covered(dyRecord[k])) =>
        /\ DOMAIN dyItem = DOMAIN dyRecord
        /\ dyItem = [k \in DOMAIN dyRecord |-> ClaimedAttribute(dyRecord[k])]

\* Strings, numbers, booleans and null ...
IsScalar(v) == TypeOf(v) \in {"string", "number", "boolean", "null"}
\* ... or one level of list or map of those.
OneLevel(v) ==
    \/ IsScalar(v)
    \/ TypeOf(v) = "array" /\ \A i \in 1..Len(v.array) : IsScalar(v.array[i])
    \/ TypeOf(v) = "object" /\ \A k \in DOMAIN v.object : IsScalar(v.object[k])
RoundTripRecords == {r \in Records : \A k \in DOMAIN r : OneLevel(r[k])}

\* C23: for a record of scalars and one level of list/map, the item read back
\* with getItem under the record's key is the encoding that was written, and
\* it is the encoding of no other such record: the record is recovered from
\* the item.
C23_RoundTrip ==
    (/\ dypc = "read"
     /\ dyRecord \in RoundTripRecords
     /\ dyKey = KeyOf(ToDynamoFormat(dyRecord))) =>
        /\ "Item" \in DOMAIN dyResult
        /\ dyResult.Item = dyItem
        /\ \A r \in RoundTripRecords :
              (ToDynamoFormat(r) = dyResult.Item) <=> (r = dyRecord)

\* C23 witness: a record with a mixed list replaced the item an earlier run
\* had left under the same key, and was read back.
C23_Witness ==
    /\ dypc = "read"
    /\ dyRecord = [poc_id |-> Str("demo1"), v |-> Arr(<<Str("1"), Num(1)>>)]
    /\ dyKey = KeyOf(OldItem)
    /\ "Item" \in DOMAIN dyResult
    /\ dyResult.Item # OldItem
    /\ dyResult.Item.v = [L |-> <<[S |-> "1"], [N |-> "1"]>>]

\* C21: when two testSingleMessage runs on one queue are serialized, no run's
\* purge deletes a message of a run that has not finished: the second run's
\* purge deletes nothing the first run is still waiting on, and the second
\* run's own message is deleted by a purge only after that run has ended.
\* (That concurrent runs do race is the witness.)
C21_SerializedRunsDoNotRace ==
    (test = "race" /\ rMode = "serial") =>
        /\ rStolen = {}
        /\ (rMsg # 0 /\ queue[rMsg] = "purged") => rpc \in {"done", "failed"}
        /\ ~(spc \in {"purge", "send", "wait"} /\ rpc \notin {"idle", "done", "failed"})

\* C21 witness: two runs started together; the purge of one deleted the
\* message the other had just sent, the consumer never received it, and the
\* other run's drain wait was satisfied and the run returned normally.
C21_Witness ==
    /\ test = "race"
    /\ rMode = "concurrent"
    /\ spc = "done"
    /\ wpc = "satisfied"
    /\ \E m \in rStolen : m \notin rConsumed /\ queue[m] = "purged"
    /\ Processed = {}

=============================================================================
